---- MODULE Spec2Model ----
(***************************************************************************)
(* A model of vidtty (src/vidtty.c): the VIDTXT header codec, the routing  *)
(* in main, the glyph mapping, the audio FIFO of the persist pipeline, the *)
(* pacing step of the player and of the renderer, the naming of the        *)
(* output file, the frame loops with their draw-error count, and the       *)
(* audio set-up with its signal save and restore.                          *)
(*                                                                         *)
(* 32- and 64-bit C integers do not fit TLC's integers, so an unsigned C   *)
(* integer is a little-endian sequence of base-256 digits; U32 and U64     *)
(* arithmetic is arithmetic on such sequences cut to 4 and 8 digits.  A    *)
(* double is its 64-bit pattern, written as 8 bytes, most significant      *)
(* byte first.                                                             *)
(***************************************************************************)
EXTENDS Integers, Sequences, FiniteSets, TLC

VARIABLES
    \* ---- header codec (new_vidtxt_info, open_vidtxt, --info, player entry)
    hpc,        \* position of the header scenario
    hfile,      \* the file on disk: its first bytes and its size
    hsrc,       \* the fields the header was serialized from (or "none")
    hflip,      \* the signature bit that was corrupted (0: none)
    hinfo,      \* what new_vidtxt_info returned
    hfp,        \* state of the FILE handle opened by open_vidtxt
    hcmd,       \* the command run on the file: "info" or "player"
    hio,        \* "none", or "failed": a system call of the command failed
    hret,       \* exit code of the command (-1: none yet, or killed)
    hshown      \* what the command put on the terminal

headerVars == <<hpc, hfile, hsrc, hflip, hinfo, hfp, hcmd, hio, hret, hshown>>

VARIABLES
    mpc,      \* main: "off", "invoked", "done"
    mflags,   \* the subcommand flags of argv, in order
    mname,    \* filename: the last non-flag argument (a string), or NoName
    mdisk,    \* what fopen(filename) finds: NoFile, or the bytes of a file
    mcall,    \* the function main called, or "none"
    mopened,  \* how many times main itself opened the file
    mstatus   \* main's return value, -1 while it runs

mainVars == <<mpc, mflags, mname, mdisk, mcall, mopened, mstatus>>

VARIABLES
    gpc,      \* pixel loop: "off", "start", "mapped", "aborted"
    gwho,     \* "dump" (dump_frames) or "render" (render_frames), or "none"
    gY,       \* gradient: the 8-bit luma of the last pixel
    gidx,     \* gradient_idx of the last pixel
    gbyte     \* the character put in ascii_fb for it, -1 when none was

glyphVars == <<gpc, gwho, gY, gidx, gbyte>>

VARIABLES
    ppc,      \* frame loop: "off", "start", "loop"
    pwho,     \* "player" (file_print_frames) or "renderer" (render_frames)
    pfps,     \* the frame rate, a double
    pnow,     \* the clock at the last pacing step, microseconds
    ppre,     \* pre_draw
    pD,       \* draw_time of the last pacing step
    pslept,   \* the usleep calls of the last pacing step
    psi,      \* sleep_interval of the last pacing step: a sign and a magnitude
    pus,      \* the useconds_t that usleep received
    psteps    \* pacing steps so far

paceVars == <<ppc, pwho, pfps, pnow, ppre, pD, pslept, psi, pus, psteps>>

VARIABLES
    dpc,      \* dump_frames: "off", "start", "opened", "setup", "audio",
              \* "flushdec", "flushswr", "pad", "flushenc", "tail", "video",
              \* "returned", "killed"
    dcols,    \* options->columns once set
    dlines,   \* options->lines once set
    dnoaudio, \* options->no_audio once the streams are known
    dfsize,   \* encoder_ctx->frame_size
    dnb,      \* nb_frames of the audio stage
    dpkts,    \* frame_count of the audio stage
    dfifo,    \* the samples in the FIFO: resampled sample i is i, silence is 0
    dsent,    \* the frames given to avcodec_send_frame, in order
    dnext,    \* the resampled samples written to the FIFO so far
    dpads,    \* how many times silence was written to the FIFO
    dflushed, \* avcodec_send_frame(encoder_ctx, NULL) was reached
    dblob,    \* the dynamic buffer the MP3 muxer writes to
    dout,     \* the bytes of the output file
    dF,       \* frame_count of the video stage
    dret,     \* what dump_frames returned, -1 before
    dvfail,   \* avcodec_send_packet failed on a video packet
    samples_pts, \* the PTS the next audio frame gets
    dpts,     \* audio_converted->pts of the frames sent, in order
    dlog      \* the end-of-stream steps of the audio stage in the order they
              \* ran, with the FIFO writes and frames sent among them

dumpVars == <<dpc, dcols, dlines, dnoaudio, dfsize, dnb, dpkts, dfifo, dsent,
              dnext, dpads, dflushed, dblob, dout, dF, dret, dvfail,
              samples_pts, dpts, dlog>>

VARIABLES
    npc,       \* output naming of dump_frames: "off", "start", "named",
               \* "resolved", "returned"
    nfile,     \* filename, a string
    nfs,       \* the paths that exist on disk
    nanswer,   \* what fgets reads from stdin at the prompt
    nout,      \* output_filename
    nprompted, \* the overwrite prompt was printed
    nopened,   \* the paths given to fopen(.., "wb")
    nret       \* 1 when dump_frames returned before writing, -1 otherwise

nameVars == <<npc, nfile, nfs, nanswer, nout, nprompted, nopened, nret>>

VARIABLES
    spc,      \* playback: "off", "start", "loop", "returned"
    swho,     \* "player" (file_print_frames) or "renderer" (render_frames)
    sdebug,   \* options->debug_mode
    sterm,    \* the terminal size last read by ioctl: <<ws_col, ws_row>>
    sgrid,    \* the player's <<print_columns, print_lines>>
    serrs,    \* draw_errors
    srun,     \* how many frames in a row ended with draw_successful == ERR
    swrites,  \* the mvaddchnstr calls of the frames of the last iteration
    sclean,   \* no mvaddchnstr of the last frame returned ERR
    scurses,  \* the screen: "closed", "open" (after newterm), "ended"
    scause,   \* why playback left its loop
    sret,     \* the return value, -1 before
    scap,     \* the scenario: how far draw_errors is followed
    ssizes    \* the scenario: the sizes the terminal takes

screenVars == <<spc, swho, sdebug, sterm, sgrid, serrs, srun, swrites,
                sclean, scurses, scause, sret, scap, ssizes>>

VARIABLES
    apc,      \* audio set-up: "off", "start", "found", "decoded", "ready",
              \* "playing", "returned" (before any frame), "finished"
              \* (after playback), "killed"
    awho,     \* "player" or "renderer"
    asig,     \* the dispositions of SIGINT and SIGTERM
    asaved,   \* the dispositions when SDL_Init was called
    alib,     \* the dispositions SDL_Init left behind
    ainit,    \* SDL_Init returned success
    afail,    \* the failures met so far, in order
    astatus,  \* status: 0 or -1 (any negative value)
    astream,  \* an audio stream was opened for playback
    aret      \* the return value, -1 before

audioVars == <<apc, awho, asig, asaved, alib, ainit, afail, astatus, astream,
               aret>>

VARIABLES
    bpc,      \* a loop that prints progress lines: "off", "start", "loop",
              \* "done", "killed"
    bwho,     \* whose loop: "dump_audio", "dump_video", "player_audio",
              \* "player", "renderer"
    bcount,   \* frame_count (frame_num in the player)
    bnb,      \* nb_frames (vidtxt_info->total_frames in the player)
    blast,    \* the last call of progress_bar and what it did
    bdivzero  \* an integer division by zero was evaluated

barVars == <<bpc, bwho, bcount, bnb, blast, bdivzero>>

VARIABLES
    rpc,      \* the frame loop of the player: "off", "start", "loop", "returned"
    rgrid,    \* <<print_columns, print_lines>>
    rterm,    \* curr_term_lines
    rbody,    \* the bytes of the file from 64 + audio_size on; byte i is i
    rtotal,   \* vidtxt_info->total_frames
    rcur,     \* the file cursor, counted from 64 + audio_size
    rbuf,     \* line_contents; -1 is a byte never written
    rchread,  \* ch_read
    rnum,     \* frame_num
    rstart,   \* where the cursor was when the last iteration began
    rrows,    \* the rows the last iteration drew: what was drawn and how
              \* many of its bytes that iteration's fread had delivered
    rclean,   \* no row draw has failed so far
    rret      \* the return value, -1 before

readVars == <<rpc, rgrid, rterm, rbody, rtotal, rcur, rbuf, rchread, rnum,
              rstart, rrows, rclean, rret>>

VARIABLES
    cpc,      \* the start of the player: "off", "start", "transcode",
              \* "device", "seek", "queue", "frames", "returned"
    caudio,   \* vidtxt_info->audio_size
    cfsize,   \* the size of the file
    cnoaudio, \* options->no_audio
    ccur,     \* the file cursor
    creads,   \* how many times avio_custom_read was called
    clast,    \* the last call of avio_custom_read
    cgot,     \* the byte ranges the calls delivered, in order
    ceof,     \* a call has returned AVERROR_EOF
    cwav,     \* wav_data_len
    clog,     \* what was done to the audio library and the first row read
    cret      \* the return value, -1 before

avioVars == <<cpc, caudio, cfsize, cnoaudio, ccur, creads, clast, cgot, ceof,
              cwav, clog, cret>>

earlierVars == <<headerVars, mainVars, glyphVars, paceVars, dumpVars>>
lastVars == <<barVars, readVars, avioVars>>
laterVars == <<nameVars, screenVars, audioVars, lastVars>>
vars == <<earlierVars, laterVars>>
notHeader == <<mainVars, glyphVars, paceVars, dumpVars, laterVars>>
notMain == <<headerVars, glyphVars, paceVars, dumpVars, laterVars>>
notGlyph == <<headerVars, mainVars, paceVars, dumpVars, laterVars>>
notPace == <<headerVars, mainVars, glyphVars, dumpVars, laterVars>>
notDump == <<headerVars, mainVars, glyphVars, paceVars, laterVars>>
notName == <<earlierVars, screenVars, audioVars, lastVars>>
notScreen == <<earlierVars, nameVars, audioVars, lastVars>>
notAudio == <<earlierVars, nameVars, screenVars, lastVars>>
oldVars == <<earlierVars, nameVars, screenVars, audioVars>>
notBar == <<oldVars, readVars, avioVars>>
notRead == <<oldVars, barVars, avioVars>>
notAvio == <<oldVars, barVars, readVars>>

----------------------------------------------------------------------------
(* Unsigned integers as little-endian digit sequences.                     *)

Base == 256
Byte == 0..255

Max(a, b) == IF a >= b THEN a ELSE b
Min(a, b) == IF a <= b THEN a ELSE b

Digit(a, i) == IF i >= 1 /\ i <= Len(a) THEN a[i] ELSE 0

RECURSIVE BTrim(_)
BTrim(a) ==
    IF a = <<>> THEN <<>>
    ELSE IF a[Len(a)] = 0 THEN BTrim(SubSeq(a, 1, Len(a) - 1)) ELSE a

RECURSIVE BFromInt(_)
BFromInt(k) == IF k = 0 THEN <<>> ELSE <<k % Base>> \o BFromInt(k \div Base)

RECURSIVE BToInt(_)
BToInt(a) == IF a = <<>> THEN 0 ELSE a[1] + Base * BToInt(Tail(a))

\* the low n digits of a, zero-extended: a modulo 256^n
Wrap(a, n) == [i \in 1..n |-> Digit(a, i)]

RECURSIVE AddFrom(_, _, _, _, _)
AddFrom(a, b, i, n, c) ==
    IF i > n THEN (IF c = 0 THEN <<>> ELSE <<c>>)
    ELSE LET s == Digit(a, i) + Digit(b, i) + c
         IN  <<s % Base>> \o AddFrom(a, b, i + 1, n, s \div Base)

BAdd(a, b) == AddFrom(a, b, 1, Max(Len(a), Len(b)), 0)

\* a - b modulo 256^n (the final borrow is dropped, as in unsigned C arithmetic)
RECURSIVE SubFrom(_, _, _, _, _)
SubFrom(a, b, i, n, br) ==
    IF i > n THEN <<>>
    ELSE LET s == Digit(a, i) - Digit(b, i) - br
         IN  <<(s + Base) % Base>> \o SubFrom(a, b, i + 1, n, IF s < 0 THEN 1 ELSE 0)

BSubWrap(a, b, n) == SubFrom(a, b, 1, n, 0)

RECURSIVE CmpFrom(_, _, _)
CmpFrom(a, b, i) ==
    IF i = 0 THEN 0
    ELSE IF Digit(a, i) < Digit(b, i) THEN -1
    ELSE IF Digit(a, i) > Digit(b, i) THEN 1
    ELSE CmpFrom(a, b, i - 1)

BCmp(a, b) == CmpFrom(a, b, Max(Len(a), Len(b)))
BLess(a, b) == BCmp(a, b) < 0
BLeq(a, b) == BCmp(a, b) <= 0
BEq(a, b) == BCmp(a, b) = 0
BZero(a) == \A i \in 1..Len(a) : a[i] = 0

\* a - b for a >= b
BSub(a, b) == BTrim(SubFrom(a, b, 1, Max(Len(a), Len(b)), 0))

RECURSIVE MulDigitFrom(_, _, _, _)
MulDigitFrom(a, d, i, c) ==
    IF i > Len(a) THEN (IF c = 0 THEN <<>> ELSE <<c>>)
    ELSE LET p == a[i] * d + c
         IN  <<p % Base>> \o MulDigitFrom(a, d, i + 1, p \div Base)

RECURSIVE MulFrom(_, _, _)
MulFrom(a, b, j) ==
    IF j > Len(b) THEN <<>>
    ELSE BAdd(MulDigitFrom(a, b[j], 1, 0), <<0>> \o MulFrom(a, b, j + 1))

BMul(a, b) == BTrim(MulFrom(a, b, 1))

\* one quotient digit: how often d fits into r (r < 256 * d), and what is left
RECURSIVE QStep(_, _, _)
QStep(r, d, k) ==
    IF k < 0 \/ BCmp(r, d) < 0 THEN <<0, r>>
    ELSE LET dk == MulDigitFrom(d, 2^k, 1, 0)
         IN  IF BCmp(r, dk) >= 0
             THEN LET rest == QStep(BSub(r, dk), d, k - 1)
                  IN  <<2^k + rest[1], rest[2]>>
             ELSE QStep(r, d, k - 1)

\* long division, most significant digit first: <<quotient, remainder>>
RECURSIVE DivFrom(_, _, _, _)
DivFrom(a, d, i, r) ==
    IF i = 0 THEN <<<<>>, r>>
    ELSE LET qs   == QStep(BTrim(<<a[i]>> \o r), d, 7)
             rest == DivFrom(a, d, i - 1, qs[2])
         IN  <<rest[1] \o <<qs[1]>>, rest[2]>>

\* floor(a / d) for d /= 0
BDiv(a, d) == BTrim(DivFrom(a, BTrim(d), Len(a), <<>>)[1])

U32(a) == Wrap(a, 4)
U64(a) == Wrap(a, 8)

----------------------------------------------------------------------------
(* Byte order and doubles.  The host is little-endian: the bytes of an     *)
(* object in memory, in address order, are the digits of its value, so     *)
(* htobe32/htobe64/be32toh/be64toh reverse the digits.                     *)

Reverse(s) == [i \in 1..Len(s) |-> s[Len(s) + 1 - i]]

htobe32(v) == Reverse(U32(v))
htobe64(v) == Reverse(U64(v))
be32toh(v) == Reverse(U32(v))
be64toh(v) == Reverse(U64(v))

\* A double is the U64 holding its bit pattern.  FromPattern takes the
\* pattern written most significant byte first (0x3FF0... is <<63, 240, ...>>).
FromPattern(p) == Reverse(p)

DSign(d) == d[8] \div 128
DExp(d) == (d[8] % 128) * 16 + (d[7] \div 16)
DMant(d) == <<d[1], d[2], d[3], d[4], d[5], d[6], d[7] % 16>>
DIsNaN(d) == DExp(d) = 2047 /\ ~BZero(DMant(d))
DIsInf(d) == DExp(d) = 2047 /\ BZero(DMant(d))
DIsZero(d) == DExp(d) = 0 /\ BZero(DMant(d))
\* C's d >= 0, d < 0 and d > 0 on doubles (false on NaN; -0.0 equals 0)
DGeZero(d) == ~DIsNaN(d) /\ (DSign(d) = 0 \/ DIsZero(d))
DLtZero(d) == ~DIsNaN(d) /\ DSign(d) = 1 /\ ~DIsZero(d)
DGtZero(d) == ~DIsNaN(d) /\ DSign(d) = 0 /\ ~DIsZero(d)
DIsFinite(d) == DExp(d) # 2047
\* 1/d == INFINITY: d is +0.0, or a positive subnormal of at most 2^-1024
\* (mantissa <= 2^50), whose reciprocal rounds to +infinity
TwoPow50 == <<0, 0, 0, 0, 0, 0, 4>>
DRecipIsPosInf(d) == DSign(d) = 0 /\ DExp(d) = 0 /\ BLeq(DMant(d), TwoPow50)
\* 1/d is a finite number
DRecipIsFinite(d) ==
    ~DIsNaN(d) /\ ~DIsZero(d) /\ ~(DExp(d) = 0 /\ BLeq(DMant(d), TwoPow50))

----------------------------------------------------------------------------
(* The 64-byte header as dump_frames writes it.                            *)

VIDTXT_HEADER_SIZE == 64
VID_METADATA_START == 8
MagicLen == 6
ReservedTail == 32

\* char signature[] = "VIDTXT\0": sizeof is 8, the 6 letters and two NULs
signature == <<86, 73, 68, 84, 88, 84, 0, 0>>
\* 0x5649445458540000 as a U64
MagicValue == <<0, 0, 84, 88, 84, 68, 73, 86>>

Zeros(n) == [i \in 1..n |-> 0]

HeaderBytes(columns, lines, fps, audio_size) ==
    signature \o htobe32(columns) \o htobe32(lines) \o htobe64(fps)
        \o htobe64(audio_size) \o Zeros(ReservedTail)

----------------------------------------------------------------------------
(* new_vidtxt_info.  f is the file (its leading bytes and its size), pos   *)
(* the position of the handle, io the system call that fails ("none" when  *)
(* all succeed).  The value is the set of possible outcomes: one, except   *)
(* where the code divides by zero, which is undefined: there the build     *)
(* either traps (SIGFPE, x86) or yields the quotient 0 (AArch64).          *)

NoInfo(ret) ==
    [ret |-> ret, columns |-> <<>>, lines |-> <<>>, fps |-> <<>>,
     audio_size |-> <<>>, file_size |-> <<>>, print_columns |-> <<>>,
     print_lines |-> <<>>, total_frames |-> <<>>, pos |-> 0]

\* bytes [from+1 .. from+n] of the file, when the file holds them all
HasBytes(f, from, n) == Len(f.bytes) >= from + n
FileBytes(f, from, n) == SubSeq(f.bytes, from + 1, from + n)

\* fread(&sig_value, 6, 1, fp) into a zeroed uint64: the bytes that exist
\* are copied (glibc copies a partial element), the rest stay 0
SigMemory(f) ==
    [i \in 1..8 |-> IF i <= MagicLen /\ i <= Len(f.bytes) THEN f.bytes[i] ELSE 0]

MagicMatchesFive(f) ==
    LET m == SigMemory(f) IN <<m[1], m[2], m[3], m[4], m[5]>> = <<86, 73, 68, 84, 88>>
MagicMatches(f) == BEq(be64toh(SigMemory(f)), MagicValue)

\* total_reads: each fread of one element returns 1 iff the element is whole
TotalReads(f) ==
    (IF HasBytes(f, 8, 4) THEN 1 ELSE 0) + (IF HasBytes(f, 12, 4) THEN 1 ELSE 0)
    + (IF HasBytes(f, 16, 8) THEN 1 ELSE 0) + (IF HasBytes(f, 24, 8) THEN 1 ELSE 0)

\* the fps field after lines 172-183: the big-endian reading when it is
\* >= 0 with a reciprocal other than +infinity, else the bytes as they were read
FpsKept(raw) ==
    LET new_fps == be64toh(raw)
    IN  IF DGeZero(new_fps) /\ ~DRecipIsPosInf(new_fps) THEN new_fps ELSE raw

FpsRejected(fps) == DLtZero(fps)

DimsRejectedMut(columns, lines) == BLeq(columns, <<1>>) /\ BLeq(lines, <<1>>)
DimsRejected(columns, lines) == BLeq(columns, <<1>>) \/ BLeq(lines, <<1>>)

\* (file_size - 64 - audio_size) / (print_columns * print_lines): the
\* subtractions in uint64_t, the product in uint32_t
FrameBytes32(print_columns, print_lines) == U32(BMul(print_columns, print_lines))
FrameSpace64(file_size, audio_size) ==
    BSubWrap(BSubWrap(U64(file_size), <<VIDTXT_HEADER_SIZE>>, 8), audio_size, 8)

new_vidtxt_info(f, pos, io) ==
    IF pos # 0 THEN {NoInfo("NULL")}
    ELSE IF ~MagicMatches(f) THEN {NoInfo("NULL")}
    ELSE IF io = "seek8" THEN {NoInfo("NULL")}
    ELSE IF TotalReads(f) # 4 THEN {NoInfo("NULL")}
    ELSE
    LET columns    == be32toh(FileBytes(f, VID_METADATA_START, 4))
        lines      == be32toh(FileBytes(f, VID_METADATA_START + 4, 4))
        fps        == FpsKept(FileBytes(f, VID_METADATA_START + 8, 8))
        audio_size == be64toh(FileBytes(f, VID_METADATA_START + 16, 8))
        pcols      == BSubWrap(columns, <<1>>, 4)
        plines     == BSubWrap(lines, <<1>>, 4)
        divisor    == FrameBytes32(pcols, plines)
        space      == FrameSpace64(f.size, audio_size)
        Info(total) ==
            [ret |-> "info", columns |-> columns, lines |-> lines, fps |-> fps,
             audio_size |-> audio_size, file_size |-> U64(f.size),
             print_columns |-> pcols, print_lines |-> plines,
             total_frames |-> U64(total), pos |-> VIDTXT_HEADER_SIZE]
    IN  IF FpsRejected(fps) THEN {NoInfo("NULL")}
        ELSE IF io = "stat" THEN {NoInfo("NULL")}
        ELSE IF DimsRejected(columns, lines) THEN {NoInfo("NULL")}
        ELSE IF BZero(divisor)
             THEN {NoInfo("SIGFPE"),
                   IF io = "seek64" THEN NoInfo("NULL") ELSE Info(<<>>)}
        ELSE IF io = "seek64" THEN {NoInfo("NULL")}
        ELSE {Info(BDiv(space, divisor))}

----------------------------------------------------------------------------
(* open_vidtxt and the two commands that open a VIDTXT file.               *)

\* the possible <<info, handle>>: fopen fails (no handle), or
\* new_vidtxt_info decides; a NULL info closes the handle
open_vidtxt(f, io) ==
    IF io = "fopen" THEN {<<NoInfo("NULL"), "none">>}
    ELSE {<<info, IF info.ret = "NULL" THEN "closed" ELSE "open">> :
             info \in new_vidtxt_info(f, 0, io)}

IoFailures == {"none", "fopen", "seek8", "stat", "seek64"}
IoSeen(io) == IF io = "none" THEN "none" ELSE "failed"

\* ---- the files of the scenario
MaxFrames == 2

\* 65537 is <<1, 0, 1>> and 65538 is <<2, 0, 1>>
ColumnsOut == {<<2>>, <<3>>, <<1, 0, 1>>}
LinesOut == {<<2>>, <<3>>, <<1, 0, 1>>, <<2, 0, 1>>}
\* frame rates av_q2d gives for a positive r_frame_rate: 24 and 1/4096
FpsOut == {FromPattern(<<64, 56, 0, 0, 0, 0, 0, 0>>),
           FromPattern(<<63, 48, 0, 0, 0, 0, 0, 0>>)}
AudioOut == {BFromInt(0), BFromInt(6)}

ColumnsIn == {<<1>>, <<2>>, <<3>>, <<1, 0, 1>>}
LinesIn == {<<1>>, <<2>>, <<3>>, <<2, 0, 1>>}
\* +0, -0, +inf, NaN, -1 (read backwards: positive), a negative number that
\* is negative read backwards too, the least subnormal, 2^-1024, the next
\* double after 2^-1024, and 1
FpsIn == {FromPattern(<<0, 0, 0, 0, 0, 0, 0, 0>>),
          FromPattern(<<128, 0, 0, 0, 0, 0, 0, 0>>),
          FromPattern(<<127, 240, 0, 0, 0, 0, 0, 0>>),
          FromPattern(<<127, 248, 0, 0, 0, 0, 0, 0>>),
          FromPattern(<<191, 240, 0, 0, 0, 0, 0, 0>>),
          FromPattern(<<191, 240, 0, 0, 0, 0, 0, 128>>),
          FromPattern(<<0, 0, 0, 0, 0, 0, 0, 1>>),
          FromPattern(<<0, 4, 0, 0, 0, 0, 0, 0>>),
          FromPattern(<<0, 4, 0, 0, 0, 0, 0, 1>>),
          FromPattern(<<63, 240, 0, 0, 0, 0, 0, 0>>)}
AudioIn == {BFromInt(0), BFromInt(6), Wrap(<<255, 255, 255, 255, 255, 255, 255, 255>>, 8)}
SizeIn == {5, 20, 32, 64, 70}

NoSource == [valid |-> FALSE, columns |-> <<>>, lines |-> <<>>, fps |-> <<>>,
             audio_size |-> <<>>, frames |-> 0]

NoName == [given |-> FALSE, s |-> <<>>]
NoFile == [exists |-> FALSE, bytes |-> <<>>]

\* main is not running
MainOff ==
    /\ mpc = "off" /\ mflags = <<>> /\ mname = NoName /\ mdisk = NoFile
    /\ mcall = "none" /\ mopened = 0 /\ mstatus = -1

\* no pixel loop is running
GlyphOff == gpc = "off" /\ gwho = "none" /\ gY = 0 /\ gidx = 0 /\ gbyte = -1

NoSleep == [neg |-> FALSE, mag |-> <<>>]

\* no frame loop is running
PaceOff ==
    /\ ppc = "off" /\ pwho = "none" /\ pfps = <<>> /\ pnow = <<>> /\ ppre = <<>>
    /\ pD = <<>> /\ pslept = 0 /\ psi = NoSleep /\ pus = <<>> /\ psteps = 0

\* dump_frames at the given position, having done nothing
DumpAt(pc) ==
    /\ dpc = pc /\ dcols = 0 /\ dlines = 0 /\ dnoaudio = FALSE /\ dfsize = 0
    /\ dnb = 0 /\ dpkts = 0 /\ dfifo = <<>> /\ dsent = <<>> /\ dnext = 0
    /\ dpads = 0 /\ dflushed = FALSE /\ dblob = <<>> /\ dout = <<>> /\ dF = 0
    /\ dret = -1 /\ dvfail = FALSE
    /\ samples_pts = 0 /\ dpts = <<>> /\ dlog = <<>>

\* dump_frames is not running
DumpOff == DumpAt("off")

NoAnswer == [got |-> FALSE, line |-> <<>>]

\* dump_frames has not started naming its output
NameOff ==
    /\ npc = "off" /\ nfile = <<>> /\ nfs = {} /\ nanswer = NoAnswer
    /\ nout = <<>> /\ nprompted = FALSE /\ nopened = {} /\ nret = -1

\* no playback is running
ScreenOff ==
    /\ spc = "off" /\ swho = "none" /\ sdebug = FALSE /\ sterm = <<0, 0>>
    /\ sgrid = <<0, 0>> /\ serrs = 0 /\ srun = 0 /\ swrites = <<>>
    /\ sclean = TRUE /\ scurses = "closed" /\ scause = "none" /\ sret = -1
    /\ scap = 0 /\ ssizes = {}

NoSignals == [int |-> "none", term |-> "none"]

\* no audio set-up is running
AudioOff ==
    /\ apc = "off" /\ awho = "none" /\ asig = NoSignals /\ asaved = NoSignals
    /\ alib = NoSignals
    /\ ainit = FALSE /\ afail = <<>> /\ astatus = 0 /\ astream = FALSE
    /\ aret = -1

\* progress_bar was not called
NoBar ==
    [called |-> FALSE, columns |-> 0, prefix_cap |-> 0, prefix_size |-> 0,
     suffix_cap |-> 0, suffix_size |-> 0, numerator |-> 0, denominator |-> 0,
     pct |-> 0, insert_offset |-> 0, visible |-> 0, escapes |-> 0,
     prefix_writes |-> {}, prefix_reads |-> {}, suffix_reads |-> {}]

\* no progress loop is running
BarOff ==
    /\ bpc = "off" /\ bwho = "none" /\ bcount = 0 /\ bnb = 0 /\ blast = NoBar
    /\ bdivzero = FALSE

\* no frame loop is running
ReadOff ==
    /\ rpc = "off" /\ rgrid = <<0, 0>> /\ rterm = 0 /\ rbody = <<>> /\ rtotal = 0
    /\ rcur = 0 /\ rbuf = <<>> /\ rchread = 0 /\ rnum = 0 /\ rstart = 0
    /\ rrows = <<>> /\ rclean = TRUE /\ rret = -1

\* avio_custom_read was not called
NoCall ==
    [called |-> FALSE, tell_ok |-> TRUE, before |-> <<>>, buffer_size |-> <<>>,
     ret |-> "none", len |-> <<>>, after_eof |-> FALSE]

\* no player is starting
AvioOff ==
    /\ cpc = "off" /\ caudio = <<>> /\ cfsize = <<>> /\ cnoaudio = FALSE
    /\ ccur = <<>> /\ creads = 0 /\ clast = NoCall /\ cgot = <<>> /\ ceof = FALSE
    /\ cwav = 0 /\ clog = <<>> /\ cret = -1

LastOff == BarOff /\ ReadOff /\ AvioOff
LaterOff == NameOff /\ ScreenOff /\ AudioOff /\ LastOff

InitHeader ==
    /\ MainOff /\ GlyphOff /\ PaceOff /\ DumpOff /\ LaterOff
    /\ hpc = "start"
    /\ hfile = [bytes |-> <<>>, size |-> <<>>]
    /\ hsrc = NoSource
    /\ hflip = 0
    /\ hinfo = NoInfo("none")
    /\ hfp = "none"
    /\ hcmd = "none"
    /\ hio = "none"
    /\ hret = -1
    /\ hshown = "nothing"

\* dump_frames has written a whole file: the header, the audio blob and F
\* frames of (columns-1)*(lines-1) glyphs
SerializeHeader ==
    /\ hpc = "start"
    /\ \E c \in ColumnsOut, l \in LinesOut, fps \in FpsOut, a \in AudioOut,
          F \in 0..MaxFrames :
          /\ hfile' = [bytes |-> HeaderBytes(c, l, fps, a),
                       size  |-> BAdd(BAdd(<<VIDTXT_HEADER_SIZE>>, a),
                                      BMul(BFromInt(F),
                                           BMul(BSub(c, <<1>>), BSub(l, <<1>>))))]
          /\ hsrc' = [valid |-> TRUE, columns |-> U32(c), lines |-> U32(l),
                      fps |-> fps, audio_size |-> U64(a), frames |-> F]
    /\ hpc' = "file"
    /\ UNCHANGED <<hflip, hinfo, hfp, hcmd, hio, hret, hshown>>
    /\ UNCHANGED notHeader

\* any other file whose first bytes are the magic: a header with arbitrary
\* fields, cut to the size of the file
ForgeFile ==
    /\ hpc = "start"
    /\ \E c \in ColumnsIn, l \in LinesIn, fps \in FpsIn, a \in AudioIn, n \in SizeIn :
          hfile' = [bytes |-> SubSeq(HeaderBytes(c, l, fps, a), 1,
                                     Min(n, VIDTXT_HEADER_SIZE)),
                    size  |-> BFromInt(n)]
    /\ hpc' = "file"
    /\ UNCHANGED <<hsrc, hflip, hinfo, hfp, hcmd, hio, hret, hshown>>
    /\ UNCHANGED notHeader

FlipBit(b, k) == IF (b \div 2^k) % 2 = 1 THEN b - 2^k ELSE b + 2^k

SignatureBits == 64

\* one bit of the 8-byte signature field of a written file is inverted
CorruptSignature ==
    /\ hpc = "file"
    /\ hsrc.valid
    /\ hsrc.frames = 0
    /\ hflip = 0
    /\ \E k \in 1..SignatureBits :
          /\ hflip' = k
          /\ hfile' = [hfile EXCEPT !.bytes[((k - 1) \div 8) + 1] =
                                        FlipBit(@, (k - 1) % 8)]
    /\ UNCHANGED <<hpc, hsrc, hinfo, hfp, hcmd, hio, hret, hshown>>
    /\ UNCHANGED notHeader

\* vidtxt_info (--info): open, print, close
RunInfo ==
    /\ hpc = "file"
    /\ \E io \in IoFailures : \E r \in open_vidtxt(hfile, io) :
              /\ hio' = IoSeen(io)
              /\ hinfo' = r[1]
              /\ hcmd' = "info"
              /\ IF r[1].ret = "NULL"
                 THEN hpc' = "exited" /\ hfp' = r[2] /\ hret' = 1 /\ hshown' = hshown
                 ELSE IF r[1].ret = "SIGFPE"
                 THEN hpc' = "killed" /\ hfp' = r[2] /\ hret' = hret /\ hshown' = hshown
                 ELSE hpc' = "exited" /\ hfp' = "closed" /\ hret' = 0 /\ hshown' = "info"
    /\ UNCHANGED <<hfile, hsrc, hflip>>
    /\ UNCHANGED notHeader

\* file_print_frames up to its first test: open, and leave with 1 on NULL
RunPlayer ==
    /\ hpc = "file"
    /\ \E io \in IoFailures : \E r \in open_vidtxt(hfile, io) :
              /\ hio' = IoSeen(io)
              /\ hinfo' = r[1]
              /\ hfp' = r[2]
              /\ hcmd' = "player"
              /\ IF r[1].ret = "NULL" THEN hpc' = "exited" /\ hret' = 1
                 ELSE IF r[1].ret = "SIGFPE" THEN hpc' = "killed" /\ hret' = hret
                 ELSE hpc' = "playing" /\ hret' = hret
    /\ UNCHANGED <<hfile, hsrc, hflip, hshown>>
    /\ UNCHANGED notHeader

\* the rest of file_print_frames: it fails before the screen is opened, or
\* it draws frames; main_cleanup closes the file
PlayerBody ==
    /\ hpc = "playing"
    /\ \E failed \in BOOLEAN :
          /\ hshown' = IF failed THEN hshown ELSE "frames"
          /\ hret' = IF failed THEN 1 ELSE 0
    /\ hfp' = "closed"
    /\ hpc' = "exited"
    /\ UNCHANGED <<hfile, hsrc, hflip, hinfo, hcmd, hio>>
    /\ UNCHANGED notHeader

NextHeader ==
    \/ SerializeHeader
    \/ ForgeFile
    \/ CorruptSignature
    \/ RunInfo
    \/ RunPlayer
    \/ PlayerBody

SpecHeader == InitHeader /\ [][NextHeader]_vars

\* the command has run new_vidtxt_info on the file
Opened == hpc \in {"exited", "playing", "killed"}

\* C1: a header serialized the way dump_frames writes it (columns >= 2,
\* lines >= 2, fps > 0, any audio_size) is accepted by new_vidtxt_info, which
\* yields the same columns, lines, fps bit pattern and audio_size.
C1_HeaderRoundTrip ==
    (Opened /\ hsrc.valid /\ hflip = 0 /\ hio = "none") =>
        /\ hinfo.ret = "info"
        /\ hinfo.columns = hsrc.columns
        /\ hinfo.lines = hsrc.lines
        /\ hinfo.fps = hsrc.fps
        /\ hinfo.audio_size = hsrc.audio_size

\* the fps field of the file, read as a big-endian double, is zero,
\* negative, NaN or infinite
BadFpsField(f) ==
    /\ HasBytes(f, 16, 8)
    /\ LET d == be64toh(FileBytes(f, 16, 8))
       IN  DIsZero(d) \/ DLtZero(d) \/ DIsNaN(d) \/ DIsInf(d)

\* C3: new_vidtxt_info returns NULL for every header whose fps field is zero,
\* negative, NaN or infinite, so every VIDTXTInfo it returns has a finite
\* fps > 0 whose reciprocal is finite.
C3_FpsValidation ==
    Opened =>
        /\ BadFpsField(hfile) => hinfo.ret # "info"
        /\ hinfo.ret = "info" =>
               DGtZero(hinfo.fps) /\ DIsFinite(hinfo.fps) /\ DRecipIsFinite(hinfo.fps)

\* C4: for every accepted file, total_frames is the integer quotient
\* (file_size - 64 - audio_size) / ((columns-1)*(lines-1)) of the true
\* numbers, 64 + audio_size + total_frames*(columns-1)*(lines-1) <= file_size,
\* and no header makes the computation wrap around or undefined.
C4_FrameCount ==
    /\ hinfo.ret # "SIGFPE"
    /\ hinfo.ret = "info" =>
           LET frame == BMul(hinfo.print_columns, hinfo.print_lines)
               used  == BAdd(<<VIDTXT_HEADER_SIZE>>, hinfo.audio_size)
           IN  /\ BLeq(used, hinfo.file_size)
               /\ BEq(hinfo.total_frames, BDiv(BSub(hinfo.file_size, used), frame))
               /\ BLeq(BAdd(used, BMul(hinfo.total_frames, frame)), hinfo.file_size)

\* the file starts with the magic and declares columns <= 1 or lines <= 1
BadDimsDeclared(f) ==
    /\ MagicMatches(f)
    /\ HasBytes(f, 12, 4)
    /\ \/ BLeq(be32toh(FileBytes(f, 8, 4)), <<1>>)
       \/ BLeq(be32toh(FileBytes(f, 12, 4)), <<1>>)

\* C5: a file with a valid magic that declares columns <= 1 or lines <= 1
\* makes open_vidtxt return NULL with no handle left open, and the player
\* and --info exit with 1 having shown nothing; every VIDTXTInfo returned
\* has columns >= 2, lines >= 2, print_columns = columns - 1 and
\* print_lines = lines - 1.
C5_DimensionValidation ==
    /\ (Opened /\ BadDimsDeclared(hfile)) =>
           /\ hinfo.ret = "NULL"
           /\ hfp # "open"
           /\ hret = 1
           /\ hshown = "nothing"
    /\ hinfo.ret = "info" =>
           /\ BLeq(<<2>>, hinfo.columns)
           /\ BLeq(<<2>>, hinfo.lines)
           /\ BEq(BAdd(hinfo.print_columns, <<1>>), hinfo.columns)
           /\ BEq(BAdd(hinfo.print_lines, <<1>>), hinfo.lines)

\* the player was run on a 64-byte-or-longer file with the magic, a good fps
\* and a bad dimension, every system call succeeded, and it left with 1
C5_Witness ==
    /\ hpc = "exited" /\ hcmd = "player" /\ hio = "none"
    /\ BadDimsDeclared(hfile)
    /\ TotalReads(hfile) = 4
    /\ ~FpsRejected(FpsKept(FileBytes(hfile, 16, 8)))
    /\ hinfo.ret = "NULL" /\ hfp = "closed" /\ hret = 1 /\ hshown = "nothing"

\* C6 as claimed: each of the 64 single-bit corruptions of the 8-byte
\* signature field (6 magic bytes, 2 reserved bytes) is rejected.
C6_AllSignatureBits ==
    (Opened /\ hflip # 0) => hinfo.ret = "NULL"

MagicBits == 48

\* C6 as amended: each of the 48 single-bit corruptions of the 6 magic bytes
\* is rejected (the 2 reserved bytes are not read).
C6_MagicBits ==
    (Opened /\ hflip \in 1..MagicBits) => hinfo.ret = "NULL"

\* a written header with one magic bit inverted was opened, every system
\* call succeeded, and new_vidtxt_info returned NULL
C6_Witness ==
    /\ hpc = "exited" /\ hio = "none" /\ hsrc.valid
    /\ hflip \in 1..MagicBits
    /\ hinfo.ret = "NULL" /\ hfp = "closed"


----------------------------------------------------------------------------
(* main: the subcommand flags select default_call, and without one the     *)
(* path and the first bytes of the file choose between the player and the  *)
(* renderer.  A string is the sequence of its characters before the NUL.   *)

includes_prefix(string, match) ==
    /\ Len(match) > 0 /\ Len(string) >= Len(match)
    /\ \A sub_idx \in 1..Len(match) : string[sub_idx] = match[sub_idx]

\* matches is set at an idx (counted from 1) that has sizeof_match
\* characters up to it, all equal to those of match
includes_match(string, match) ==
    LET sizeof_match == Len(match)
    IN  \E idx \in 1..Len(string) :
           /\ idx >= sizeof_match
           /\ sizeof_match > 0
           /\ \A sub_idx \in 1..sizeof_match :
                  string[idx - sizeof_match + sub_idx] = match[sub_idx]

url_mark == <<":", "/", "/">>

\* default_call after the argument loop: file_print_frames, or the call of
\* the last subcommand flag
RECURSIVE default_call_after(_, _)
default_call_after(call, flags) ==
    IF flags = <<>> THEN call
    ELSE default_call_after(
             CASE Head(flags) = "dump" -> "dump_frames"
               [] Head(flags) = "info" -> "vidtxt_info"
               [] OTHER -> "print_help",
             Tail(flags))

\* fread(&sig_value, 6, 1, fp) on the file main opened, then be64toh
main_sig_value(bytes) ==
    be64toh([i \in 1..8 |-> IF i <= MagicLen /\ i <= Len(bytes) THEN bytes[i] ELSE 0])

\* ---- the command lines and files of the scenario
MaxNameLen == 4
MaxFlags == 2
Chars == {":", "/", "a"}
Names == UNION {[1..n -> Chars] : n \in 0..MaxNameLen}
Flags == UNION {[1..n -> {"dump", "info", "help"}] : n \in 0..MaxFlags}
Letters == <<86, 73, 68, 84, 88, 84>>
Contents ==
    {SubSeq(Letters, 1, n) : n \in 0..MagicLen}
    \cup {Letters \o <<0, 0, 0, 0>>}
    \cup {[Letters EXCEPT ![k] = @ + 1] \o <<0, 0>> : k \in 1..MagicLen}

\* the header scenario is not running
HeaderOff ==
    /\ hpc = "off" /\ hfile = [bytes |-> <<>>, size |-> <<>>] /\ hsrc = NoSource
    /\ hflip = 0 /\ hinfo = NoInfo("none") /\ hfp = "none" /\ hcmd = "none"
    /\ hio = "none" /\ hret = -1 /\ hshown = "nothing"

InitMain ==
    /\ HeaderOff /\ GlyphOff /\ PaceOff /\ DumpOff /\ LaterOff
    /\ mpc = "start" /\ mflags = <<>> /\ mname = NoName /\ mdisk = NoFile
    /\ mcall = "none" /\ mopened = 0 /\ mstatus = -1

\* the program is started with some flags, a path or none, on some disk
Invoke ==
    /\ mpc = "start"
    /\ mflags' \in Flags
    /\ mname' \in {[given |-> TRUE, s |-> n] : n \in Names} \cup {NoName}
    /\ mdisk' \in (IF mname'.s = <<>> THEN {}
                   ELSE {[exists |-> TRUE, bytes |-> c] : c \in Contents})
                  \cup {NoFile}
    /\ mpc' = "invoked"
    /\ UNCHANGED <<mcall, mopened, mstatus>>
    /\ UNCHANGED notMain

\* main, from the end of the argument loop to its return
Main ==
    /\ mpc = "invoked"
    /\ LET default_call == default_call_after("file_print_frames", mflags)
           is_url == includes_match(mname.s, url_mark)
       IN  IF ~mname.given /\ default_call # "print_help"
           THEN mcall' = "none" /\ mopened' = 0 /\ mstatus' = 1
           ELSE IF default_call # "file_print_frames"
           THEN mcall' = default_call /\ mopened' = 0 /\ mstatus' \in {0, 1}
           ELSE IF is_url
           THEN mcall' = "render_frames" /\ mopened' = 0 /\ mstatus' \in {0, 1}
           ELSE IF ~mdisk.exists
           THEN mcall' = "none" /\ mopened' = 0 /\ mstatus' = 1
           ELSE /\ mopened' = 1
                /\ mcall' = IF BEq(main_sig_value(mdisk.bytes), MagicValue)
                             THEN "file_print_frames" ELSE "render_frames"
                /\ mstatus' \in {0, 1}
    /\ mpc' = "done"
    /\ UNCHANGED <<mflags, mname, mdisk>>
    /\ UNCHANGED notMain

NextMain ==
    \/ Invoke
    \/ Main

SpecMain == InitMain /\ [][NextMain]_vars

\* the path contains "://"
ContainsUrlMark(name) ==
    \E i \in 1..Len(name) : i + 2 <= Len(name) /\ SubSeq(name, i, i + 2) = url_mark

\* the first 6 bytes of the file are 'VIDTXT'
StartsWithMagic(bytes) == Len(bytes) >= MagicLen /\ SubSeq(bytes, 1, MagicLen) = Letters

\* C7: with no subcommand and a path that is a URL or a file that opens,
\* main calls the renderer iff the path contains "://" or the first 6 bytes
\* of the file differ from 'VIDTXT' (a shorter file differs), and the player
\* iff the path has no "://" and the 6 bytes are the magic; when --dump is
\* the subcommand, dump_frames is called whatever the file holds; main never
\* opens the file when the path contains "://".
C7_Routing ==
    (mpc = "done" /\ mname.given) =>
        /\ (mflags = <<>> /\ (ContainsUrlMark(mname.s) \/ mdisk.exists)) =>
               /\ mcall = "render_frames" <=>
                      (ContainsUrlMark(mname.s) \/ ~StartsWithMagic(mdisk.bytes))
               /\ mcall = "file_print_frames" <=>
                      (~ContainsUrlMark(mname.s) /\ StartsWithMagic(mdisk.bytes))
        /\ (mflags # <<>> /\ mflags[Len(mflags)] = "dump") =>
               mcall = "dump_frames" /\ mopened = 0
        /\ ContainsUrlMark(mname.s) => mopened = 0

\* without a subcommand, a path with "://" whose file on disk starts with
\* the magic went to the renderer unopened
C7_Witness ==
    /\ mpc = "done" /\ mflags = <<>> /\ mname.given
    /\ ContainsUrlMark(mname.s) /\ mdisk.exists /\ StartsWithMagic(mdisk.bytes)
    /\ mcall = "render_frames" /\ mopened = 0

----------------------------------------------------------------------------
(* The pixel loops of dump_frames and render_frames: a luma in 0..255 is   *)
(* mapped to a character of ascii_gradients.                               *)

\* static const char ascii_gradients[]: the characters and the final NUL
ascii_gradients ==
    <<32, 46, 39, 96, 94, 34, 44, 58, 59, 73, 108, 33, 105, 62, 60, 126, 43,
      95, 45, 63, 93, 91, 125, 123, 49, 41, 40, 124, 92, 47, 116, 102, 106,
      114, 120, 110, 117, 118, 99, 122, 88, 89, 85, 74, 67, 76, 81, 48, 79,
      90, 109, 119, 113, 112, 100, 98, 107, 104, 97, 111, 42, 35, 77, 87, 38,
      56, 37, 66, 64, 36, 0>>
\* sizeof(ascii_gradients) - 1
ascii_size == Len(ascii_gradients) - 1

gradient_idx_sized(gradient) == (gradient * ascii_size) \div 255
\* (gradient * (ascii_size - 1)) / 255, in uint64_t
gradient_idx_of(gradient) == (gradient * (ascii_size - 1)) \div 255

\* one pixel: the index, the bounds test, the store into ascii_fb
MapPixel(who) ==
    /\ gpc \in {"start", "mapped"}
    /\ \E gradient \in 0..255 :
          LET gradient_idx == gradient_idx_of(gradient)
          IN  /\ gY' = gradient
              /\ gidx' = gradient_idx
              /\ IF gradient_idx > ascii_size
                 THEN gpc' = "aborted" /\ gbyte' = -1
                 ELSE gpc' = "mapped" /\ gbyte' = ascii_gradients[gradient_idx + 1]
    /\ gwho' = who
    /\ UNCHANGED notGlyph

DumpPixel == MapPixel("dump")
RenderPixel == MapPixel("render")

InitGlyph ==
    /\ HeaderOff /\ MainOff /\ PaceOff /\ DumpOff /\ LaterOff
    /\ gpc = "start" /\ gwho = "none" /\ gY = 0 /\ gidx = 0 /\ gbyte = -1

NextGlyph ==
    \/ DumpPixel
    \/ RenderPixel

SpecGlyph == InitGlyph /\ [][NextGlyph]_vars

\* the characters the spec's gradient string lists
GradientGlyphs == {ascii_gradients[i] : i \in 1..(Len(ascii_gradients) - 1)}

\* C8 as claimed: the index is Y*68 div 255, in 0..68, index 68 ('$') at
\* Y = 255, and every emitted byte is one of 69 glyphs.
C8_AsClaimed ==
    gpc # "start" =>
        /\ gidx = (gY * 68) \div 255
        /\ gidx \in 0..68
        /\ gY = 255 => gidx = 68
        /\ Cardinality(GradientGlyphs) = 69

\* C8 as amended: in both loops the index of a luma Y in 0..255 is
\* Y*69 div 255, in 0..69; Y = 0 gives index 0 (space) and Y = 255 index 69
\* ('$'); the index is non-decreasing in Y; every emitted byte is one of the
\* 70 gradient glyphs; the out-of-range guard never fires.
C8_GlyphMapping ==
    /\ gpc # "aborted"
    /\ gpc = "mapped" =>
           /\ gidx = (gY * 69) \div 255
           /\ gidx \in 0..69
           /\ gY = 0 => (gidx = 0 /\ gbyte = 32)
           /\ gY = 255 => (gidx = 69 /\ gbyte = 36)
           /\ gbyte \in GradientGlyphs
           /\ \A y \in 0..gY : gradient_idx_of(y) <= gidx
    /\ Cardinality(GradientGlyphs) = 70

\* the renderer mapped the brightest luma to '$'
C8_Witness == gpc = "mapped" /\ gwho = "render" /\ gY = 255 /\ gbyte = 36

----------------------------------------------------------------------------
(* The pacing step that ends a frame iteration of file_print_frames and of *)
(* render_frames.  Times are microseconds, as digit sequences.             *)

Fps24 == FromPattern(<<64, 56, 0, 0, 0, 0, 0, 0>>)
Fps1 == FromPattern(<<63, 240, 0, 0, 0, 0, 0, 0>>)
FpsPow2Neg12 == FromPattern(<<63, 48, 0, 0, 0, 0, 0, 0>>)

Micros(kind, whole, frac) == [kind |-> kind, whole |-> whole, frac |-> frac]

\* interval * 1000000 with interval = 1 / fps, in doubles, for the frame
\* rates of the scenario: "neg_inf" (fps is -0.0), "over" (+infinity: fps
\* is +0.0 or below 2^-45, where the product exceeds the doubles), or a
\* number: its integer part and whether a fraction follows.
\* 1/24 * 1000000 is 41666.666666666664; 4096 * 1000000 is <<0, 0, 36, 244>>.
IntervalMicros(fps) ==
    IF DIsZero(fps)
    THEN Micros(IF DSign(fps) = 1 THEN "neg_inf" ELSE "over", <<>>, FALSE)
    ELSE IF DIsInf(fps) THEN Micros("num", <<>>, FALSE)
    ELSE IF DExp(fps) < 978 THEN Micros("over", <<>>, FALSE)
    ELSE IF fps = Fps1 THEN Micros("num", BFromInt(1000000), FALSE)
    ELSE IF fps = Fps24 THEN Micros("num", BFromInt(41666), TRUE)
    ELSE IF fps = FpsPow2Neg12 THEN Micros("num", <<0, 0, 36, 244>>, FALSE)
    ELSE Micros("untabulated", <<>>, FALSE)

\* draw_time < interval * 1000000, the left side converted to double
DrawTimeBelow(draw_time, T) ==
    \/ T.kind = "over"
    \/ /\ T.kind = "num"
       /\ BLess(draw_time, T.whole) \/ (BEq(draw_time, T.whole) /\ T.frac)

IntMaxPlus1 == <<0, 0, 0, 128>>
INT_MIN == [neg |-> TRUE, mag |-> IntMaxPlus1]
INT_MAX == [neg |-> FALSE, mag |-> <<255, 255, 255, 127>>]

\* (int32_t)(interval * 1000000 - draw_time): the difference cut to its
\* integer part; undefined when that is 2^31 or more, where the conversion
\* instruction yields INT_MIN (x86) or saturates to INT_MAX (AArch64)
sleep_interval_of(T, draw_time) ==
    IF T.kind = "over" \/ BLeq(IntMaxPlus1, BSub(T.whole, draw_time))
    THEN {INT_MIN, INT_MAX}
    ELSE {[neg |-> FALSE, mag |-> BSub(T.whole, draw_time)]}

\* a uint64_t plus an int32_t
AddSigned64(a, si) == IF si.neg THEN BSubWrap(a, si.mag, 8) ELSE U64(BAdd(a, si.mag))

\* ---- the frame rates and the clock of the scenario
MaxPaceSteps == 2
\* every frame rate new_vidtxt_info accepts among the files of the header
\* scenario
AcceptedFps ==
    {fps \in {FpsKept(htobe64(x)) : x \in FpsIn \cup FpsOut \cup {Fps1}} :
        ~FpsRejected(fps) /\ IntervalMicros(fps).kind # "untabulated"}
\* av_q2d of a positive r_frame_rate: 24/1, 1/1 and 1/4096
RenderedFps == {Fps24, Fps1, FpsPow2Neg12}
\* the clock when the loop starts: 5000 s
ClockStart == <<0, 242, 5, 42, 1>>
\* the time one iteration takes besides its sleep
DrawCosts == {<<>>, <<1>>, BFromInt(41666), BFromInt(41667), BFromInt(1000000)}

InitPace ==
    /\ HeaderOff /\ MainOff /\ GlyphOff /\ DumpOff /\ LaterOff
    /\ ppc = "start" /\ pwho = "none" /\ pfps = <<>> /\ pnow = <<>> /\ ppre = <<>>
    /\ pD = <<>> /\ pslept = 0 /\ psi = NoSleep /\ pus = <<>> /\ psteps = 0

\* the loop is entered: interval is 1 / fps and pre_draw the clock
StartLoop(who, rates) ==
    /\ ppc = "start"
    /\ pfps' \in rates
    /\ pwho' = who
    /\ pnow' = ClockStart
    /\ ppre' = U64(ClockStart)
    /\ ppc' = "loop"
    /\ UNCHANGED <<pD, pslept, psi, pus, psteps>>
    /\ UNCHANGED notPace

StartPlayer == StartLoop("player", AcceptedFps)
StartRenderer == StartLoop("renderer", RenderedFps)

\* one pacing step: the clock is read after the last sleep and the drawing
PaceStep(who) ==
    /\ ppc = "loop" /\ pwho = who
    /\ psteps < MaxPaceSteps
    /\ \E cost \in DrawCosts :
          LET now == BTrim(BAdd(BAdd(pnow, pus), cost))
              draw_time == BSubWrap(now, ppre, 8)
              T == IntervalMicros(pfps)
          IN  /\ pnow' = now
              /\ pD' = BTrim(draw_time)
              /\ IF DrawTimeBelow(draw_time, T)
                 THEN \E sleep_interval \in sleep_interval_of(T, draw_time) :
                         /\ psi' = [sleep_interval EXCEPT !.mag = BTrim(@)]
                         /\ ppre' = AddSigned64(now, sleep_interval)
                         /\ pus' = BTrim(U32(sleep_interval.mag))
                         /\ pslept' = 1
                 ELSE /\ psi' = NoSleep
                      /\ ppre' = U64(now)
                      /\ pus' = <<>>
                      /\ pslept' = 0
    /\ psteps' = psteps + 1
    /\ UNCHANGED <<ppc, pwho, pfps>>
    /\ UNCHANGED notPace

PacePlayer == PaceStep("player")
PaceRenderer == PaceStep("renderer")

NextPace ==
    \/ StartPlayer
    \/ StartRenderer
    \/ PacePlayer
    \/ PaceRenderer

SpecPace == InitPace /\ [][NextPace]_vars

\* C10: in every pacing step, with D the microseconds since the reference
\* timestamp and T = 1/fps in microseconds: if D < T exactly one sleep of
\* T - D microseconds (its integer part), a strictly positive 32-bit value,
\* is issued and the next reference is now + (T - D); if D >= T no sleep
\* is issued and the next reference is now.
C10_PacingStep ==
    (ppc = "loop" /\ psteps > 0) =>
        LET T == IntervalMicros(pfps)
        IN  IF DrawTimeBelow(pD, T)
            THEN /\ pslept = 1
                 /\ T.kind = "num"
                 /\ ~psi.neg
                 /\ ~BZero(psi.mag)
                 /\ BLess(psi.mag, IntMaxPlus1)
                 /\ BEq(psi.mag, BSub(T.whole, pD))
                 /\ BEq(pus, psi.mag)
                 /\ BEq(ppre, BAdd(pnow, psi.mag))
            ELSE pslept = 0 /\ BEq(ppre, pnow)

----------------------------------------------------------------------------
(* dump_frames: the output file is opened and the header begun, the audio  *)
(* of the input is decoded, resampled, cut into encoder frames through a   *)
(* FIFO and muxed into a buffer, the header is finished, the buffer and    *)
(* then the video frames are written.  A failing library call sets         *)
(* status < 0 and goes to cleanup, which returns 1 for status < 0, else 0. *)

\* int enc_frame_size = encoder_ctx->frame_size, 1152 when that is <= 0
enc_frame_size_of(frame_size) == IF frame_size <= 0 THEN 1152 ELSE frame_size

\* resampled samples from+1 .. from+n, and n samples of silence
Samples(n, from) == [i \in 1..n |-> from + i]
Silence(n) == [i \in 1..n |-> 0]

\* while (av_audio_fifo_size(fifo) >= enc_frame_size): read a frame of
\* enc_frame_size samples and send it to the encoder.  <<fifo, sent>>
RECURSIVE fifo_drain(_, _, _)
fifo_drain(fifo, sent, enc_frame_size) ==
    IF Len(fifo) >= enc_frame_size
    THEN fifo_drain(SubSeq(fifo, enc_frame_size + 1, Len(fifo)),
                    Append(sent, SubSeq(fifo, 1, enc_frame_size)), enc_frame_size)
    ELSE <<fifo, sent>>

\* av_audio_fifo_write of converted samples, then the drain loop
fifo_feed(fifo, sent, next, converted, enc_frame_size) ==
    fifo_drain(fifo \o Samples(converted, next), sent, enc_frame_size)

\* the resampler flush loop: swr_convert hands over at most enc_frame_size
\* of the pending samples per round, until it returns 0.  <<fifo, sent>>
RECURSIVE swr_flush(_, _, _, _, _)
swr_flush(pending, fifo, sent, next, enc_frame_size) ==
    IF pending = 0 THEN <<fifo, sent>>
    ELSE LET converted == Min(pending, enc_frame_size)
             fed == fifo_feed(fifo, sent, next, converted, enc_frame_size)
         IN  swr_flush(pending - converted, fed[1], fed[2], next + converted,
                       enc_frame_size)

to_pad_whole(enc_frame_size, leftover) == enc_frame_size
\* int to_pad = enc_frame_size - leftover
to_pad_of(enc_frame_size, leftover) == enc_frame_size - leftover

\* the silence padding block.  <<fifo, sent, pads>>
pad_and_drain(fifo, sent, enc_frame_size) ==
    LET leftover == Len(fifo)
    IN  IF leftover > 0
        THEN IF leftover < enc_frame_size
             THEN LET d == fifo_drain(
                               fifo \o Silence(to_pad_of(enc_frame_size, leftover)),
                               sent, enc_frame_size)
                  IN  <<d[1], d[2], 1>>
             ELSE LET d == fifo_drain(fifo, sent, enc_frame_size)
                  IN  <<d[1], d[2], 0>>
        ELSE <<fifo, sent, 0>>

\* samples_pts += enc_frame_size
pts_by_sample(pts, enc_frame_size) == pts + 1
pts_next(pts, enc_frame_size) == pts + enc_frame_size

\* audio_converted->pts = samples_pts; samples_pts += enc_frame_size, for
\* each of the n frames a drain loop sends: the PTS values they get
RECURSIVE frame_pts(_, _, _)
frame_pts(pts, n, enc_frame_size) ==
    IF n = 0 THEN <<>>
    ELSE <<pts>> \o frame_pts(pts_next(pts, enc_frame_size), n - 1, enc_frame_size)

\* samples_pts after those n frames
RECURSIVE pts_after(_, _, _)
pts_after(pts, n, enc_frame_size) ==
    IF n = 0 THEN pts
    ELSE pts_after(pts_next(pts, enc_frame_size), n - 1, enc_frame_size)

\* an entry of dlog
Step(step, n) == [step |-> step, n |-> n]
FifoWrite(n) == IF n > 0 THEN <<Step("fifo_write", n)>> ELSE <<>>
FramesSent(pts) == [i \in 1..Len(pts) |-> Step("send_frame", pts[i])]

\* the muxer's buffer: the bytes avformat_write_header leaves, and one
\* packet per frame the encoder was sent
MuxHeader == <<73>>
MuxPackets(n) == [i \in 1..n |-> 255]

\* cleanup: status < 0 returns 1, anything else 0
cleanup_return(status) == IF status < 0 THEN 1 ELSE 0

\* ---- the inputs of the scenario
MaxSamples == 8
MaxPackets == 64
MaxDumpFrames == 2
ProgressEvery == 64
OptDims == {0, 2, 3}
TermSizes == {[ws_col |-> 1, ws_row |-> 1], [ws_col |-> 3, ws_row |-> 2]}
FrameSizes == {0, 2, 3}
Chunks == {0, 1, 3, 4}
Lumas == {0, 255}

InitDump ==
    /\ HeaderOff /\ MainOff /\ GlyphOff /\ PaceOff /\ LaterOff
    /\ DumpAt("start")

\* goto cleanup (or the end of the function) with the given status
DumpLeave(status) == dpc' = "returned" /\ dret' = cleanup_return(status)

\* the frames a step sent to the encoder get their PTS; the step's entries
\* of dlog are first followed by one entry per frame
StampFrames(sent, first) ==
    LET enc_frame_size == enc_frame_size_of(dfsize)
        n == Len(sent) - Len(dsent)
        pts == frame_pts(samples_pts, n, enc_frame_size)
    IN  /\ dpts' = dpts \o pts
        /\ samples_pts' = pts_after(samples_pts, n, enc_frame_size)
        /\ dlog' = IF first = <<>> THEN dlog ELSE dlog \o first \o FramesSent(pts)

\* to fopen and the first three fwrites
DumpOpen ==
    /\ dpc = "start"
    /\ \E oc \in OptDims, ol \in OptDims, term_size \in TermSizes,
          fail \in {"none", "ioctl", "fopen"} :
          LET columns == IF oc < 2 THEN term_size.ws_col ELSE oc
              lines   == IF ol < 2 THEN term_size.ws_row ELSE ol
          IN  IF fail # "none" \/ columns < 2 \/ lines < 2
              THEN dpc' = "returned" /\ dret' = 1 /\ UNCHANGED <<dcols, dlines, dout>>
              ELSE /\ dpc' = "opened" /\ dret' = dret
                   /\ dcols' = columns /\ dlines' = lines
                   /\ dout' = signature \o htobe32(BFromInt(columns))
                                         \o htobe32(BFromInt(lines))
    /\ UNCHANGED <<dnoaudio, dfsize, dnb, dpkts, dfifo, dsent, dnext, dpads,
                   dflushed, dblob, dF>>
    /\ UNCHANGED <<dvfail, samples_pts, dpts, dlog, notDump>>

\* the input is opened, the frame rate written, the audio stream looked for
DumpProbe ==
    /\ dpc = "opened"
    /\ \E fail \in BOOLEAN, fps \in FpsOut, no_audio \in BOOLEAN :
          IF fail THEN DumpLeave(-1) /\ UNCHANGED <<dout, dnoaudio>>
          ELSE /\ dout' = dout \o htobe64(fps)
               /\ dnoaudio' = no_audio
               /\ dpc' = IF no_audio THEN "tail" ELSE "setup"
               /\ dret' = dret
    /\ UNCHANGED <<dcols, dlines, dfsize, dnb, dpkts, dfifo, dsent, dnext, dpads,
                   dflushed, dblob, dF>>
    /\ UNCHANGED <<dvfail, samples_pts, dpts, dlog, notDump>>

\* decoder, encoder, muxer, resampler and FIFO are set up; nb_frames is the
\* stream's, or when that is <= 0 an estimate divided by
\* encoder_ctx->frame_size: a division by zero when frame_size is 0
AudioSetup ==
    /\ dpc = "setup"
    /\ \E fail \in BOOLEAN, frame_size \in FrameSizes, nb_frames \in {0, 1},
          estimated \in BOOLEAN :
          IF fail THEN DumpLeave(-1) /\ UNCHANGED <<dfsize, dnb, dblob>>
          ELSE /\ dfsize' = frame_size
               /\ dblob' = MuxHeader
               /\ dret' = dret
               /\ IF estimated /\ frame_size = 0
                  THEN (dpc' = "killed" /\ dnb' = dnb) \/ (dpc' = "audio" /\ dnb' = 0)
                  ELSE dpc' = "audio" /\ dnb' = nb_frames
    /\ UNCHANGED <<dcols, dlines, dnoaudio, dpkts, dfifo, dsent, dnext, dpads,
                   dflushed, dout, dF>>
    /\ UNCHANGED <<dvfail, samples_pts, dpts, dlog, notDump>>

\* one round of the packet loop: the end of the input, a failing call, or
\* an audio packet whose frame resamples to converted samples
AudioPacket ==
    /\ dpc = "audio"
    /\ \/ /\ dpc' = "flushdec"
          /\ UNCHANGED <<dpkts, dnb, dfifo, dsent, dnext, dblob, dret>>
          /\ UNCHANGED <<samples_pts, dpts, dlog>>
       \/ /\ DumpLeave(-1)
          /\ UNCHANGED <<dpkts, dnb, dfifo, dsent, dnext, dblob>>
          /\ UNCHANGED <<samples_pts, dpts, dlog>>
       \/ /\ dpkts < MaxPackets
          /\ \E converted \in Chunks, ioctl_fails \in BOOLEAN :
                LET fed == fifo_feed(dfifo, dsent, dnext, converted,
                                     enc_frame_size_of(dfsize))
                    frame_count == dpkts + 1
                IN  /\ dnext + converted <= MaxSamples
                    /\ dfifo' = fed[1]
                    /\ dsent' = fed[2]
                    /\ StampFrames(fed[2], <<>>)
                    /\ dblob' = dblob \o MuxPackets(Len(fed[2]) - Len(dsent))
                    /\ dnext' = dnext + converted
                    /\ dpkts' = frame_count
                    /\ dnb' = Max(dnb, frame_count)
                    /\ IF frame_count % ProgressEvery = 0 /\ ioctl_fails
                       THEN DumpLeave(0)
                       ELSE dpc' = dpc /\ dret' = dret
    /\ UNCHANGED <<dcols, dlines, dnoaudio, dfsize, dpads, dflushed, dout, dF>>
    /\ UNCHANGED <<dvfail, notDump>>

\* the decoder is flushed: its last frame, if any, goes the same way
FlushDecoder ==
    /\ dpc = "flushdec"
    /\ \/ /\ DumpLeave(-1)
          /\ UNCHANGED <<dfifo, dsent, dnext, dblob, samples_pts, dpts, dlog>>
       \/ \E converted \in Chunks :
             LET fed == fifo_feed(dfifo, dsent, dnext, converted,
                                  enc_frame_size_of(dfsize))
             IN  /\ dnext + converted <= MaxSamples
                 /\ dfifo' = fed[1]
                 /\ dsent' = fed[2]
                 /\ StampFrames(fed[2], <<Step("decoder_drain", 0)>>
                                             \o FifoWrite(converted))
                 /\ dblob' = dblob \o MuxPackets(Len(fed[2]) - Len(dsent))
                 /\ dnext' = dnext + converted
                 /\ dpc' = "flushswr" /\ dret' = dret
    /\ UNCHANGED <<dcols, dlines, dnoaudio, dfsize, dnb, dpkts, dpads, dflushed,
                   dout, dF>>
    /\ UNCHANGED <<dvfail, notDump>>

\* the resampler is flushed of the samples it still holds
FlushResampler ==
    /\ dpc = "flushswr"
    /\ \/ /\ DumpLeave(-1)
          /\ UNCHANGED <<dfifo, dsent, dnext, dblob, samples_pts, dpts, dlog>>
       \/ \E pending \in Chunks :
             LET fed == swr_flush(pending, dfifo, dsent, dnext,
                                  enc_frame_size_of(dfsize))
             IN  /\ dnext + pending <= MaxSamples
                 /\ dfifo' = fed[1]
                 /\ dsent' = fed[2]
                 /\ StampFrames(fed[2], <<Step("resampler_drain", 0)>>
                                             \o FifoWrite(pending))
                 /\ dblob' = dblob \o MuxPackets(Len(fed[2]) - Len(dsent))
                 /\ dnext' = dnext + pending
                 /\ dpc' = "pad" /\ dret' = dret
    /\ UNCHANGED <<dcols, dlines, dnoaudio, dfsize, dnb, dpkts, dpads, dflushed,
                   dout, dF>>
    /\ UNCHANGED <<dvfail, notDump>>

\* what is left in the FIFO is padded with silence to a whole frame
PadSilence ==
    /\ dpc = "pad"
    /\ \/ /\ DumpLeave(-1)
          /\ UNCHANGED <<dfifo, dsent, dpads, dblob, samples_pts, dpts, dlog>>
       \/ LET padded == pad_and_drain(dfifo, dsent, enc_frame_size_of(dfsize))
          IN  /\ dfifo' = padded[1]
              /\ dsent' = padded[2]
              /\ StampFrames(padded[2], <<Step("pad", padded[3])>>)
              /\ dpads' = dpads + padded[3]
              /\ dblob' = dblob \o MuxPackets(Len(padded[2]) - Len(dsent))
              /\ dpc' = "flushenc" /\ dret' = dret
    /\ UNCHANGED <<dcols, dlines, dnoaudio, dfsize, dnb, dpkts, dnext, dflushed,
                   dout, dF>>
    /\ UNCHANGED <<dvfail, notDump>>

\* the encoder is flushed, the last progress line printed (100 *
\* frame_count / nb_frames: a division by zero when no packet was counted
\* and nb_frames is 0), the trailer written and the buffer closed
FlushEncoder ==
    /\ dpc = "flushenc"
    /\ \/ DumpLeave(-1) /\ UNCHANGED <<dflushed, dnb, dpkts, dlog>>
       \/ /\ dflushed' = TRUE
          /\ \E fail \in {"none", "ioctl", "trailer"} :
                LET nb_frames == IF dnb <= 0 THEN dpkts ELSE dnb
                    drained == dlog \o <<Step("encoder_drain", 0)>>
                    trailed == drained \o <<Step("trailer", 0)>>
                IN  IF fail = "ioctl"
                    THEN DumpLeave(0) /\ dlog' = drained /\ UNCHANGED <<dnb, dpkts>>
                    ELSE \/ /\ nb_frames = 0
                            /\ dpc' = "killed" /\ dret' = dret
                            /\ dlog' = drained
                            /\ UNCHANGED <<dnb, dpkts>>
                         \/ /\ fail = "trailer"
                            /\ DumpLeave(-1) /\ dlog' = trailed
                            /\ UNCHANGED <<dnb, dpkts>>
                         \/ /\ fail = "none"
                            /\ dpc' = "tail" /\ dret' = dret
                            /\ dlog' = trailed
                            /\ dnb' = 0 /\ dpkts' = 0
    /\ UNCHANGED <<dcols, dlines, dnoaudio, dfsize, dfifo, dsent, dnext, dpads,
                   dblob, dout, dF>>
    /\ UNCHANGED <<dvfail, samples_pts, dpts, notDump>>

\* the header is finished with audio_size and 32 zero bytes, the audio
\* buffer is written, and the video decoder and scaler are set up
HeaderTail ==
    /\ dpc = "tail"
    /\ \E fail \in {"none", "fputc", "setup"} :
          LET audio_size == IF dnoaudio THEN 0 ELSE Len(dblob)
              be_audio_size == htobe64(BFromInt(audio_size))
          IN  /\ dlog' = dlog \o <<Step("audio_size", audio_size)>>
              /\ IF fail = "fputc"
                 THEN DumpLeave(-1) /\ dout' = dout \o be_audio_size
                 ELSE /\ dout' = dout \o be_audio_size \o Zeros(ReservedTail)
                                      \o (IF dnoaudio THEN <<>> ELSE dblob)
                      /\ IF fail = "setup" THEN DumpLeave(-1)
                         ELSE dpc' = "video" /\ dret' = dret
    /\ UNCHANGED <<dcols, dlines, dnoaudio, dfsize, dnb, dpkts, dfifo, dsent,
                   dnext, dpads, dflushed, dblob, dF>>
    /\ UNCHANGED <<dvfail, samples_pts, dpts, notDump>>

\* a frame of the output: (columns-1)*(lines-1) glyphs, here of one luma
ascii_fb(gradient) ==
    [i \in 1..((dcols - 1) * (dlines - 1)) |->
        ascii_gradients[gradient_idx_of(gradient) + 1]]

\* one round of the video packet loop: the end of the input, a packet the
\* decoder refuses (break), or a packet whose frame is converted and
\* written, after which the clock or the ioctl may fail
VideoPacket ==
    /\ dpc = "video"
    /\ \/ \* av_read_frame < 0: the end of the input
          DumpLeave(0) /\ UNCHANGED <<dout, dF, dvfail>>
       \/ \* avcodec_send_packet < 0: break, status is not set
          DumpLeave(0) /\ dvfail' = TRUE /\ UNCHANGED <<dout, dF>>
       \/ /\ dF < MaxDumpFrames
          /\ \E gradient \in Lumas, fail \in {"none", "clock", "ioctl"} :
                /\ dout' = dout \o ascii_fb(gradient)
                /\ dF' = dF + 1
                /\ IF fail = "clock" THEN DumpLeave(-1)
                   ELSE IF fail = "ioctl" THEN DumpLeave(0)
                   ELSE dpc' = dpc /\ dret' = dret
          /\ dvfail' = dvfail
    /\ UNCHANGED <<dcols, dlines, dnoaudio, dfsize, dnb, dpkts, dfifo, dsent,
                   dnext, dpads, dflushed, dblob, samples_pts, dpts, dlog>>
    /\ UNCHANGED notDump

NextDump ==
    \/ DumpOpen
    \/ DumpProbe
    \/ AudioSetup
    \/ AudioPacket
    \/ FlushDecoder
    \/ FlushResampler
    \/ PadSilence
    \/ FlushEncoder
    \/ HeaderTail
    \/ VideoPacket

SpecDump == InitDump /\ [][NextDump]_vars

\* C2: after a dump_frames run that returned 0 having written F video
\* frames for columns x lines, the file is 64 + audio_size +
\* F*(columns-1)*(lines-1) bytes with audio_size the value in bytes 24..31:
\* a 64-byte header, the audio buffer in [64, 64+audio_size), and then
\* F frames of (columns-1)*(lines-1) glyphs and nothing else.
C2_FrameExactness ==
    (dpc = "returned" /\ dret = 0) =>
        /\ Len(dout) >= VIDTXT_HEADER_SIZE
        /\ LET audio_size == BToInt(be64toh(SubSeq(dout, 25, 32)))
               frame == (dcols - 1) * (dlines - 1)
           IN  /\ Len(dout) = VIDTXT_HEADER_SIZE + audio_size + dF * frame
               /\ audio_size = IF dnoaudio THEN 0 ELSE Len(dblob)
               /\ ~dnoaudio =>
                      SubSeq(dout, VIDTXT_HEADER_SIZE + 1,
                             VIDTXT_HEADER_SIZE + audio_size) = dblob
               /\ \A i \in (VIDTXT_HEADER_SIZE + audio_size + 1)..Len(dout) :
                      dout[i] \in GradientGlyphs

RECURSIVE Flatten(_)
Flatten(frames) == IF frames = <<>> THEN <<>> ELSE Head(frames) \o Flatten(Tail(frames))

\* C9: every frame sent to the encoder has exactly frame_size samples and
\* silence is written at most once; when the encoder is flushed the FIFO
\* is empty and the frames sent are, in order, every resampled sample once
\* followed by fewer than frame_size samples of silence, which are there
\* only if the resampled samples left a non-zero remainder.
C9_AudioFrameSizing ==
    LET frame_size == enc_frame_size_of(dfsize)
        sent == Flatten(dsent)
    IN  /\ \A i \in 1..Len(dsent) : Len(dsent[i]) = frame_size
        /\ dpads <= 1
        /\ dflushed =>
               /\ dfifo = <<>>
               /\ Len(sent) >= dnext
               /\ SubSeq(sent, 1, dnext) = [i \in 1..dnext |-> i]
               /\ \A i \in (dnext + 1)..Len(sent) : sent[i] = 0
               /\ Len(sent) - dnext < frame_size
               /\ dpads = 1 <=> dnext % frame_size # 0
               /\ dpads = 0 => Len(sent) = dnext

\* the encoder was flushed after two whole frames of resampled samples and
\* a third that silence completed
C9_Witness ==
    /\ dflushed /\ dfsize = 3 /\ dnext = 8 /\ dpads = 1
    /\ dsent = <<(<<1, 2, 3>>), (<<4, 5, 6>>), (<<7, 8, 0>>)>>

EarlierOff == HeaderOff /\ MainOff /\ GlyphOff /\ PaceOff /\ DumpOff

\* C19: when avcodec_send_packet fails on a video packet, dump_frames
\* returns a non-zero exit code, never 0.
C19_VideoSendFailure == (dpc = "returned" /\ dvfail) => dret # 0

----------------------------------------------------------------------------
(* The output name of dump_frames (src/vidtty.c:1115-1184).  A string is   *)
(* a sequence of one-character strings; the answer read at the prompt is   *)
(* a sequence of character codes, because the code tests it with | 32.     *)

VIDTXT_EXT == <<".", "v", "i", "d", "t", "x", "t">>

\* the index of the first c in s, Len(s) + 1 when there is none
FirstAt(s, c) ==
    IF \E i \in 1..Len(s) : s[i] = c
    THEN CHOOSE i \in 1..Len(s) : s[i] = c /\ \A j \in 1..(i - 1) : s[j] # c
    ELSE Len(s) + 1

\* the loop of extract_filename_from_url with include_ext = 0: buf is
\* output_buffer[0 .. buffer_idx - 1]
RECURSIVE url_scan(_, _, _, _)
url_scan(url, idx, buf, stop_adding) ==
    IF idx > Len(url) \/ url[idx] = "?" THEN buf
    ELSE LET stop == stop_adding \/ url[idx] = "."
         IN  IF url[idx] = "/" THEN url_scan(url, idx + 1, <<>>, FALSE)
             ELSE IF stop THEN url_scan(url, idx + 1, buf, TRUE)
             ELSE url_scan(url, idx + 1, Append(buf, url[idx]), FALSE)

extract_filename_from_url(url, add_str) == url_scan(url, 1, <<>>, FALSE) \o add_str

\* lines 1118-1127: the characters before the first '.' of the whole path
prefix_of(filename) == SubSeq(filename, 1, FirstAt(filename, ".") - 1)

output_filename_of(filename) ==
    IF includes_match(filename, url_mark)
    THEN extract_filename_from_url(filename, VIDTXT_EXT)
    ELSE prefix_of(filename) \o VIDTXT_EXT

\* snprintf "%u"
DecimalDigits == <<"0", "1", "2", "3", "4", "5", "6", "7", "8", "9">>
RECURSIVE Decimal(_)
Decimal(n) ==
    IF n < 10 THEN <<DecimalDigits[n + 1]>>
    ELSE Append(Decimal(n \div 10), DecimalDigits[(n % 10) + 1])

\* snprintf "%s.%u%s" of lines 1144-1146
duplicate_name(base, duplicate_number) ==
    base \o <<".">> \o Decimal(duplicate_number) \o VIDTXT_EXT

\* c | 32 on a character code
Or32(c) == IF (c \div 32) % 2 = 1 THEN c ELSE c + 32

\* any answer but an empty line counts
answers_nonempty(ans) == ans.got /\ ans.line[1] # 10

\* the test of line 1133, negated: the answer is a yes
answers_yes(ans) == ans.got /\ ans.line[1] # 10 /\ Or32(ans.line[1]) = 121

\* the while (1) of lines 1143-1152
RECURSIVE first_free(_, _, _)
first_free(fs, base, n) ==
    IF duplicate_name(base, n) \notin fs THEN n ELSE first_free(fs, base, n + 1)

MaxPathLen == 3
MaxDup == 2

PathChars == {"a", ".", "/"}
UrlChars == {"a", ".", "/", "?"}
LocalPaths == UNION {[1..n -> PathChars] : n \in 1..MaxPathLen}
Urls == {<<"h">> \o url_mark \o tl : tl \in UNION {[1..n -> UrlChars] : n \in 0..MaxPathLen}}
\* fgets with a 6-byte buffer: end of input, or up to 5 characters
Answers ==
    {NoAnswer} \cup {[got |-> TRUE, line |-> l] :
        l \in {<<10>>, <<121, 10>>, <<89, 10>>, <<110, 10>>, <<78, 10>>,
               <<121, 101, 115, 10>>, <<25, 10>>, <<110, 121, 10>>}}

InitName ==
    /\ EarlierOff /\ ScreenOff /\ AudioOff /\ LastOff
    /\ npc = "start"
    /\ nfile \in LocalPaths \cup Urls
    /\ \E there \in BOOLEAN, taken \in SUBSET (1..MaxDup) :
          LET derived == output_filename_of(nfile)
              base == SubSeq(derived, 1, FirstAt(derived, ".") - 1)
          IN  nfs = (IF there THEN {derived} ELSE {})
                    \cup {duplicate_name(base, n) : n \in taken}
    /\ nanswer = NoAnswer /\ nout = <<>> /\ nprompted = FALSE
    /\ nopened = {} /\ nret = -1

\* lines 1115-1128
DeriveName ==
    /\ npc = "start"
    /\ nout' = output_filename_of(nfile)
    /\ npc' = "named"
    /\ UNCHANGED <<nfile, nfs, nanswer, nprompted, nopened, nret>>
    /\ UNCHANGED notName

\* lines 1129-1157
ResolveCollision ==
    /\ npc = "named"
    /\ npc' = "resolved"
    /\ IF nout \in nfs
       THEN /\ nprompted' = TRUE
            /\ \E ans \in Answers :
                  /\ nanswer' = ans
                  /\ IF answers_yes(ans) THEN nout' = nout
                     ELSE LET base == SubSeq(nout, 1, FirstAt(nout, ".") - 1)
                          IN  nout' = duplicate_name(base, first_free(nfs, base, 1))
       ELSE UNCHANGED <<nprompted, nanswer, nout>>
    /\ UNCHANGED <<nfile, nfs, nopened, nret>>
    /\ UNCHANGED notName

\* lines 1159-1184: the terminal size, the resolution, fopen
OpenOutput ==
    /\ npc = "resolved"
    /\ \E step \in {"ioctl", "resolution", "fopen", "ok"} :
          IF step = "ok"
          THEN npc' = "writing" /\ nopened' = nopened \cup {nout} /\ nret' = nret
          ELSE npc' = "returned" /\ nret' = 1 /\ nopened' = nopened
    /\ UNCHANGED <<nfile, nfs, nanswer, nout, nprompted>>
    /\ UNCHANGED notName

NextName == DeriveName \/ ResolveCollision \/ OpenOutput
SpecName == InitName /\ [][NextName]_vars

\* the index of the last c in s, 0 when there is none
LastAt(s, c) ==
    IF \E i \in 1..Len(s) : s[i] = c
    THEN CHOOSE i \in 1..Len(s) : s[i] = c /\ \A j \in (i + 1)..Len(s) : s[j] # c
    ELSE 0

\* the path without the extension of its file name
StripExtension(f) ==
    IF LastAt(f, ".") > LastAt(f, "/") THEN SubSeq(f, 1, LastAt(f, ".") - 1) ELSE f

\* the last path segment before any '?', cut at its first '.'
UrlSegmentName(u) ==
    LET q == SubSeq(u, 1, FirstAt(u, "?") - 1)
        seg == SubSeq(q, LastAt(q, "/") + 1, Len(q))
    IN  SubSeq(seg, 1, FirstAt(seg, ".") - 1)

IsUrl(f) == \E i \in 1..(Len(f) - 2) : SubSeq(f, i, i + 2) = <<":", "/", "/">>

\* C17: the output path derived by dump is, for every non-URL input, the
\* input with the extension of its file name stripped and ".vidtxt"
\* appended, and for a URL the last path segment before any '?', cut at
\* its first '.', with ".vidtxt" appended.
C17_OutputNaming ==
    npc = "named" =>
        nout = (IF IsUrl(nfile) THEN UrlSegmentName(nfile)
                ELSE StripExtension(nfile)) \o VIDTXT_EXT

BeginsWithY(ans) == ans.got /\ ans.line[1] \in {121, 89}
Numbered(base, n) == base \o <<".", DecimalDigits[n + 1]>> \o VIDTXT_EXT

\* C16: when the derived output path exists, the prompt is shown; an answer
\* that does not begin with 'y' or 'Y' (end of input and the empty line
\* included) makes dump write <base>.n.vidtxt for the smallest n >= 1 of
\* which no file exists, and no file that existed is opened for writing; an
\* answer that begins with 'y' or 'Y' makes it write the derived path.
C16_OverwriteSuffix ==
    LET derived == output_filename_of(nfile)
        base == SubSeq(derived, 1, Len(derived) - Len(VIDTXT_EXT))
    IN  (npc \in {"resolved", "writing", "returned"} /\ derived \in nfs) =>
            /\ nprompted
            /\ npc = "writing" => nopened = {nout}
            /\ npc # "writing" => nopened = {}
            /\ IF BeginsWithY(nanswer) THEN nout = derived
               ELSE /\ \E n \in 1..(MaxDup + 1) :
                          /\ nout = Numbered(base, n)
                          /\ nout \notin nfs
                          /\ \A m \in 1..(n - 1) : Numbered(base, m) \in nfs
                    /\ nopened \cap nfs = {}

\* the derived path a.vidtxt and a.1.vidtxt existed, the answer was "n",
\* and a.2.vidtxt was opened for writing
C16_Witness ==
    /\ npc = "writing" /\ nfile = <<"a", ".", "a">>
    /\ nfs = {<<"a">> \o VIDTXT_EXT, <<"a", ".", "1">> \o VIDTXT_EXT}
    /\ nanswer = [got |-> TRUE, line |-> <<110, 10>>]
    /\ nopened = {<<"a", ".", "2">> \o VIDTXT_EXT}

----------------------------------------------------------------------------
(* Playback: the frame loop of file_print_frames (src/vidtty.c:867-1062)   *)
(* and of render_frames (src/vidtty.c:2468-2737).  The results of          *)
(* mvaddchnstr, clock_gettime, ioctl and the decoder are inputs.  A call   *)
(* of mvaddchnstr is [row, n, len, bar]: the row, the number of cells      *)
(* asked for, the length of the ch_array that was built, and whether it    *)
(* is the debug bar rather than a row of the frame.  The renderer is       *)
(* followed with at most one decoded frame per packet.                     *)

DRAW_ERROR_TOLERANCE == 256
ERR == -1

MaxTerm == 3
FewDrawErrors == 1
MaxDrawErrors == 257

\* the epilogue after main_cleanup / cleanup: the screen is torn down when
\* curses_init is set, and status < 0 becomes 1
ScreenLeave(status, cause) ==
    /\ spc' = "returned"
    /\ sret' = IF status < 0 THEN 1 ELSE 0
    /\ scurses' = IF scurses = "open" THEN "ended" ELSE scurses
    /\ scause' = cause

\* lines 1008-1022 and 2649-2663: what follows the drawing of one frame,
\* draw_errors being mid after the rows
FrameEnd(draw_successful, mid, clock, more) ==
    IF draw_successful = ERR
    THEN /\ serrs' = mid + 1 /\ srun' = srun + 1
         /\ IF more THEN UNCHANGED <<spc, sret, scurses, scause>>
            ELSE ScreenLeave(0, "eof")
    ELSE IF mid >= DRAW_ERROR_TOLERANCE
    THEN serrs' = mid /\ srun' = srun /\ ScreenLeave(-1, "draw")
    ELSE IF clock = ERR
    THEN serrs' = mid /\ srun' = 0 /\ ScreenLeave(-1, "clock")
    ELSE /\ serrs' = mid /\ srun' = 0
         /\ IF more THEN UNCHANGED <<spc, sret, scurses, scause>>
            ELSE ScreenLeave(0, "eof")

\* lines 922-941: the calls of one frame of the player when call number
\* failed is the first to return ERR (0: none does); the loop breaks there
player_rows(grid, term, failed) ==
    [j \in 1..(IF failed = 0 THEN Min(grid[2], term[2]) ELSE failed) |->
        [row |-> j - 1, n |-> grid[1],
         len |-> IF grid[1] > term[1] THEN term[1] ELSE grid[1],
         bar |-> FALSE]]

\* one row call for every terminal row
renderer_rows_full(term) ==
    [j \in 1..term[2] |->
        [row |-> j - 1, n |-> term[1] - 1, len |-> term[1] - 1, bar |-> FALSE]]

\* lines 2558-2585: the calls of one frame of the renderer
renderer_rows(term) ==
    [j \in 1..Min(term[2] - 1, term[2]) |->
        [row |-> j - 1, n |-> term[1] - 1, len |-> term[1] - 1, bar |-> FALSE]]

\* lines 1005 and 2646: the call that draws the debug bar
bar_call(row, n, len) == <<[row |-> row, n |-> n, len |-> len, bar |-> TRUE]>>

InitScreen ==
    /\ EarlierOff /\ NameOff /\ AudioOff /\ LastOff
    /\ spc = "start" /\ swho \in {"player", "renderer"} /\ sdebug \in BOOLEAN
    /\ \/ /\ scap = FewDrawErrors
          /\ ssizes = (1..MaxTerm) \X (1..MaxTerm)
          /\ sgrid \in IF swho = "player" THEN (1..MaxTerm) \X (1..MaxTerm)
                       ELSE {<<0, 0>>}
       \/ /\ scap = MaxDrawErrors
          /\ ssizes = {<<MaxTerm, MaxTerm>>}
          /\ sgrid = IF swho = "player" THEN <<MaxTerm - 1, MaxTerm - 1>>
                     ELSE <<0, 0>>
    /\ sterm = <<0, 0>> /\ serrs = 0 /\ srun = 0 /\ swrites = <<>>
    /\ sclean = TRUE /\ scurses = "closed" /\ scause = "none" /\ sret = -1

\* lines 867-900 and 2468-2490: the terminal size (player only), newterm,
\* the first clock reading
ScreenStart ==
    /\ spc = "start"
    /\ \/ swho = "player" /\ ScreenLeave(-1, "ioctl") /\ sterm' = sterm
       \/ \E size \in ssizes :
            /\ sterm' = IF swho = "player" THEN size ELSE sterm
            /\ \/ ScreenLeave(-1, "newterm")
               \/ /\ spc' = "returned" /\ sret' = 1 /\ scurses' = "ended"
                  /\ scause' = "clock"
               \/ /\ spc' = "loop" /\ scurses' = "open"
                  /\ UNCHANGED <<sret, scause>>
    /\ UNCHANGED <<swho, sdebug, sgrid, serrs, srun, swrites, sclean, scap,
                   ssizes>>
    /\ UNCHANGED notScreen

\* lines 919-1033: one iteration of while (ch_read)
PlayerFrame ==
    /\ spc = "loop" /\ swho = "player" /\ serrs <= scap /\ srun <= scap
    /\ \E failed \in 0..Min(sgrid[2], sterm[2]), clock \in {0, ERR},
          bar \in (IF sdebug THEN {0, ERR} ELSE {0}), more \in BOOLEAN :
          LET mid == IF failed = 1 THEN serrs ELSE 0
              rows == IF failed = 0 THEN 0 ELSE ERR
          IN  /\ swrites' = player_rows(sgrid, sterm, failed) \o
                    (IF sdebug
                     THEN bar_call(sterm[2] - 1, sgrid[1], sterm[1] - 1)
                     ELSE <<>>)
              /\ sclean' = (failed = 0 /\ bar = 0)
              /\ FrameEnd(IF sdebug THEN bar ELSE rows, mid, clock, more)
    /\ UNCHANGED <<swho, sdebug, sterm, sgrid, scap, ssizes>>
    /\ UNCHANGED notScreen

\* lines 2518-2687: one iteration of while (av_read_frame(..) >= 0)
RendererPacket ==
    /\ spc = "loop" /\ swho = "renderer" /\ serrs <= scap /\ srun <= scap
    /\ \/ \* av_read_frame < 0, or ioctl fails
          /\ \/ ScreenLeave(0, "eof") \/ ScreenLeave(-1, "ioctl")
          /\ UNCHANGED <<sterm, sgrid, serrs, srun, swrites, sclean>>
       \/ \E size \in ssizes :
            /\ sterm' = size
            /\ \/ \* line 2524-2527: return 1, nothing is released
                  /\ size[1] < 2
                  /\ spc' = "returned" /\ sret' = 1 /\ scause' = "small"
                  /\ swrites' = <<>> /\ sclean' = TRUE /\ sgrid' = <<0, 0>>
                  /\ UNCHANGED <<scurses, serrs, srun>>
               \/ \* sws_getContext returns NULL: always for a 0-row grid
                  /\ size[1] >= 2
                  /\ ScreenLeave(-1, "sws")
                  /\ swrites' = <<>> /\ sclean' = TRUE /\ sgrid' = <<0, 0>>
                  /\ UNCHANGED <<serrs, srun>>
               \/ \* another stream's packet, or no frame yet
                  /\ size[1] >= 2 /\ size[2] >= 2
                  /\ swrites' = <<>> /\ sclean' = TRUE /\ sgrid' = <<0, 0>>
                  /\ UNCHANGED <<spc, sret, scurses, scause, serrs, srun>>
               \/ \* avcodec_send_packet < 0: break_condition
                  /\ size[1] >= 2 /\ size[2] >= 2
                  /\ ScreenLeave(0, "send")
                  /\ swrites' = <<>> /\ sclean' = TRUE /\ sgrid' = <<0, 0>>
                  /\ UNCHANGED <<serrs, srun>>
               \/ \* one frame is decoded and drawn
                  /\ size[1] >= 2 /\ size[2] >= 2
                  /\ \E res \in [1..Len(renderer_rows(size)) -> {0, ERR}],
                        bar \in (IF sdebug THEN {0, ERR} ELSE {0}),
                        clock \in {0, ERR} :
                        /\ sgrid' = <<size[1] - 1, size[2] - 1>>
                        /\ swrites' = renderer_rows(size) \o
                              (IF sdebug
                               THEN bar_call(size[2] - 1, size[1] - 1, size[1] - 1)
                               ELSE <<>>)
                        /\ sclean' = (bar = 0 /\ \A j \in DOMAIN res : res[j] = 0)
                        /\ FrameEnd(IF sdebug THEN bar ELSE res[Len(res)],
                                    serrs, clock, TRUE)
    /\ UNCHANGED <<swho, sdebug, scap, ssizes>>
    /\ UNCHANGED notScreen

NextScreen == ScreenStart \/ PlayerFrame \/ RendererPacket
SpecScreen == InitScreen /\ [][NextScreen]_vars

\* the calls of the last frame that draw a row of the frame
FrameCalls == SelectSeq(swrites, LAMBDA c : ~c.bar)

\* C11: the player never asks for a write at a row >= term_rows, and when
\* term_cols < print_columns the number of cells it asks for in a row is at
\* most term_cols and at most the length of the cell array it built.
C11_PlayerClipping ==
    swho = "player" =>
        \A i \in DOMAIN FrameCalls :
            /\ FrameCalls[i].row < sterm[2]
            /\ sterm[1] < sgrid[1] =>
                  /\ FrameCalls[i].n <= sterm[1]
                  /\ FrameCalls[i].n <= FrameCalls[i].len

\* C12: every frame the renderer draws has the grid (cols-1) x (rows-1) of
\* the terminal size read for it: rows-1 row writes, at rows 0..rows-2 in
\* order, each of exactly cols-1 cells, none at a row >= rows-1 or reaching
\* a column >= cols-1; a terminal with fewer than 2 columns or 2 rows gives
\* an error return and no frame.
C12_RendererResize ==
    (swho = "renderer" /\ sterm # <<0, 0>>) =>
        /\ swrites # <<>> =>
              /\ sterm[1] >= 2 /\ sterm[2] >= 2
              /\ sgrid = <<sterm[1] - 1, sterm[2] - 1>>
              /\ Len(FrameCalls) = sterm[2] - 1
              /\ \A i \in DOMAIN FrameCalls :
                    /\ FrameCalls[i].row = i - 1
                    /\ FrameCalls[i].row < sterm[2] - 1
                    /\ FrameCalls[i].n = sterm[1] - 1
                    /\ FrameCalls[i].len = sterm[1] - 1
        /\ (sterm[1] < 2 \/ sterm[2] < 2) =>
              swrites = <<>> /\ spc = "returned" /\ sret = 1

\* after a failed frame the terminal was read as 2 x 3 and a frame of
\* 1 x 2 glyphs was drawn
C12_Witness ==
    /\ swho = "renderer" /\ spc = "loop" /\ sterm = <<2, 3>> /\ serrs = 1
    /\ sgrid = <<1, 2>> /\ Len(swrites) = 2 /\ sclean

\* C13: once more than 256 frames in a row have ended with a failed draw,
\* playback has stopped with the draw-error failure and exit code 1.
C13_DrawErrorCap ==
    srun > DRAW_ERROR_TOLERANCE =>
        spc = "returned" /\ sret = 1 /\ scause = "draw"

\* C14: the count behind the draw-error failure counts consecutive failing
\* frames only: after a frame drawn without any error it is 0.
C14_ConsecutiveOnly ==
    (spc # "start" /\ swrites # <<>> /\ sclean) => serrs = 0

\* C18: every return of the player and of the renderer taken after the
\* screen was opened has torn the screen down.
C18_ScreenRelease ==
    (spc = "returned" /\ scurses # "closed") => scurses = "ended"

----------------------------------------------------------------------------
(* The audio set-up of file_print_frames (src/vidtty.c:413-785) and of     *)
(* render_frames (src/vidtty.c:2061-2388), up to the start of playback.    *)
(* The results of the library calls are inputs; status is followed by its  *)
(* sign.                                                                   *)

Dispositions == {"dfl", "ign", "user"}

\* the handlers in force once SDL_Init has returned, left as SDL set them
sdl_left(saved, lib) == lib

\* lines 752-753 and 2355-2356: sigaction(.., &int_action, NULL), the same
\* for SIGTERM
sigaction_restore(saved, lib) == saved

\* a return before any frame was drawn
AudioReturn(cause, status) ==
    /\ apc' = "returned" /\ afail' = Append(afail, cause)
    /\ astatus' = status /\ aret' = IF status < 0 THEN 1 ELSE 0

InitAudio ==
    /\ EarlierOff /\ NameOff /\ ScreenOff /\ LastOff
    /\ apc = "start" /\ awho \in {"player", "renderer"}
    /\ asig \in [int : Dispositions, term : Dispositions]
    /\ asaved = NoSignals /\ alib = NoSignals /\ ainit = FALSE
    /\ afail = <<>> /\ astatus = 0 /\ astream = FALSE /\ aret = -1

\* lines 413-440 and 2033-2066: the input is opened and probed and the
\* audio stream is looked for
AudioDiscover ==
    /\ apc = "start"
    /\ \/ \* no audio wanted: audio_size = 0 or --no-audio
          apc' = "ready" /\ UNCHANGED <<afail, astatus, aret>>
       \/ \E cause \in {"open", "probe"} : AudioReturn(cause, -1)
       \/ IF awho = "player" THEN AudioReturn("nostream", -1)
          ELSE /\ apc' = "ready" /\ afail' = Append(afail, "nostream")
               /\ UNCHANGED <<astatus, aret>>
       \/ apc' = "found" /\ UNCHANGED <<afail, astatus, aret>>
    /\ UNCHANGED <<awho, asig, asaved, alib, ainit, astream>>
    /\ UNCHANGED notAudio

\* lines 442-716 and 2068-2321: the stream is decoded to a WAV buffer.
\* counted: frame_count > 0 at the end of the loop; known: nb_frames > 0
AudioDecode ==
    /\ apc = "found"
    /\ \/ \E cause \in {"setup", "convert", "clock", "ioctl"} :
             AudioReturn(cause, -1)
       \/ \E last \in {"eof", "send"}, counted \in BOOLEAN, known \in BOOLEAN,
             trailer \in {0, -1} :
             LET logged == IF last = "send" THEN Append(afail, "send") ELSE afail
             IN  \/ \* 100*(frame_count) / nb_frames with nb_frames = 0
                    /\ ~counted /\ ~known
                    /\ apc' = "killed" /\ afail' = Append(logged, "SIGFPE")
                    /\ astatus' = -1 /\ aret' = aret
                 \/ \* status = av_write_trailer(..)
                    /\ astatus' = trailer
                    /\ IF trailer < 0
                       THEN /\ apc' = "returned" /\ aret' = 1
                            /\ afail' = Append(logged, "trailer")
                       ELSE apc' = "decoded" /\ aret' = aret /\ afail' = logged
    /\ UNCHANGED <<awho, asig, asaved, alib, ainit, astream>>
    /\ UNCHANGED notAudio

\* lines 719-785 and 2322-2388: SDL is initialised between a save and a
\* restore of the two dispositions, then the WAV is loaded and the stream
\* opened
AudioInit ==
    /\ apc = "decoded"
    /\ \/ /\ AudioReturn("metadata", -1)
          /\ UNCHANGED <<asig, asaved, alib, ainit, astream>>
       \/ \E lib \in [int : {asig.int, "sdl"}, term : {asig.term, "sdl"}] :
             /\ asaved' = asig /\ alib' = lib
             /\ \/ /\ AudioReturn("SDL_Init", -1)
                   /\ asig' = lib /\ UNCHANGED <<ainit, astream>>
                \/ /\ asig' = sigaction_restore(asig, lib) /\ ainit' = TRUE
                   /\ \/ \E cause \in {"wav", "device"} :
                            AudioReturn(cause, -1) /\ astream' = astream
                      \/ /\ apc' = "ready" /\ astream' = TRUE
                         /\ UNCHANGED <<afail, astatus, aret>>
    /\ UNCHANGED awho
    /\ UNCHANGED notAudio

\* lines 787-918 and 2390-2517: the seek, the screen, the first clock
\* reading, the audio is queued; then the frame loop runs to its return
AudioPlayback ==
    /\ \/ /\ apc = "ready"
          /\ \/ AudioReturn("setup", -1)
             \/ apc' = "playing" /\ UNCHANGED <<afail, astatus, aret>>
       \/ /\ apc = "playing"
          /\ apc' = "finished" /\ afail' = afail
          /\ \E status \in {0, -1} :
                astatus' = status /\ aret' = IF status < 0 THEN 1 ELSE 0
    /\ UNCHANGED <<awho, asig, asaved, alib, ainit, astream>>
    /\ UNCHANGED notAudio

NextAudio == AudioDiscover \/ AudioDecode \/ AudioInit \/ AudioPlayback
SpecAudio == InitAudio /\ [][NextAudio]_vars

C20_AudioFailurePolicy ==
    awho = "player" =>
        /\ (\E i \in DOMAIN afail : afail[i] \in {"open", "probe", "nostream"})
              => (apc \notin {"returned", "killed"} /\ ~astream)
        /\ (\E i \in DOMAIN afail : afail[i] = "send")
              => (apc = "returned" /\ aret = 1)

----------------------------------------------------------------------------
(* The end of the audio stage of dump_frames.                              *)

FlushOrder == <<"decoder_drain", "resampler_drain", "pad", "encoder_drain",
                "trailer", "audio_size">>
FlushSteps == {FlushOrder[i] : i \in 1..Len(FlushOrder)}
StepsDone == LET done == SelectSeq(dlog, LAMBDA e : e.step \in FlushSteps)
             IN  [i \in 1..Len(done) |-> done[i].step]

\* C25: in a persist with audio the end-of-stream steps run in the order
\* decoder drain, resampler drain, silence padding, encoder drain, trailer
\* write, audio_size written to the header, and all six have run when the
\* video stage begins; no sample enters the FIFO after the padding, no
\* frame is sent to the encoder after its null-frame flush, and frame k
\* (from 0) is sent with PTS = k * frame_size.
C25_FlushOrder ==
    /\ Len(dpts) = Len(dsent)
    /\ \A k \in 1..Len(dpts) : dpts[k] = (k - 1) * enc_frame_size_of(dfsize)
    /\ ~dnoaudio =>
          /\ StepsDone = SubSeq(FlushOrder, 1, Len(StepsDone))
          /\ dpc = "video" => StepsDone = FlushOrder
    /\ \A i \in 1..Len(dlog) : \A j \in (i + 1)..Len(dlog) :
          /\ dlog[i].step = "pad" => dlog[j].step # "fifo_write"
          /\ dlog[i].step = "encoder_drain" => dlog[j].step # "send_frame"

\* the video stage began after an audio stage that sent three frames, the
\* last one in the padding step with one sample of silence
C25_Witness ==
    /\ dpc = "video" /\ ~dnoaudio /\ dfsize = 3
    /\ dpts = <<0, 3, 6>>
    /\ \E i \in 1..Len(dlog) : dlog[i] = Step("pad", 1)
    /\ dlog[Len(dlog)].step = "audio_size"

\* C27: when the encoder reports no frame size (encoder_ctx->frame_size <=
\* 0) the audio set-up of a persist run never divides by zero: no step from
\* the set-up ends in the process being killed by SIGFPE.
C27_FrameSizeFallback ==
    [][(dpc = "setup" /\ dfsize' <= 0) => dpc' # "killed"]_vars

----------------------------------------------------------------------------
(* progress_bar and the loops that call it.  A buffer is a function from   *)
(* its indexes, counted from 0, to what each byte holds: "t" a character   *)
(* of the formatted text, " " a space, "e" a byte of an escape sequence,   *)
(* "0" the terminating NUL, "?" a byte that was never written.             *)

OldOff == EarlierOff /\ NameOff /\ ScreenOff /\ AudioOff

SUFFIX_MAX_SIZE == 9

\* snprintf(buf, size, ...) into malloc(size) of a text of len characters;
\* it returns len
snprintf_buf(size, len) ==
    [i \in 0..(size - 1) |->
        IF i < Min(len, size - 1) THEN "t"
        ELSE IF i = Min(len, size - 1) THEN "0" ELSE "?"]

\* the quotient of an unsigned division where a zero divisor does not trap
udiv(n, d) == IF d = 0 THEN 0 ELSE n \div d

Digits(n) == Len(Decimal(n))

\* progress_bar: the three writes to prefix in their order, insert_offset,
\* and full_bar copied from prefix around the inserted escape sequence
progress_bar(columns, prefix, prefix_size, suffix, suffix_size, numerator, denominator) ==
    LET filled == prefix_size..columns
        placed == {columns - suffix_size + idx : idx \in 0..(suffix_size - 1)}
        byte(i) ==
            IF i = columns THEN "0"
            ELSE IF i \in placed
                 THEN LET idx == i - columns + suffix_size
                      IN  IF idx \in DOMAIN suffix THEN suffix[idx] ELSE "?"
            ELSE IF i \in filled THEN " "
            ELSE IF i \in DOMAIN prefix THEN prefix[i] ELSE "?"
        insert_offset == udiv(columns * numerator, denominator)
        is_insert(idx) == idx >= insert_offset + 4 /\ idx < insert_offset + 4 + 4
        data_offset(idx) == IF idx >= insert_offset + 4 THEN 8 ELSE 4
        full_bar == [idx \in 0..(columns + 8) |->
                        IF idx < 4 THEN "e"
                        ELSE IF idx = columns + 8 THEN "0"
                        ELSE IF is_insert(idx) THEN "e"
                        ELSE byte(idx - data_offset(idx))]
        nul == CHOOSE n \in 0..(columns + 8) :
                   /\ full_bar[n] = "0"
                   /\ \A m \in 0..(n - 1) : full_bar[m] # "0"
    IN  [insert_offset |-> insert_offset,
         visible |-> Cardinality({i \in 0..(nul - 1) : full_bar[i] # "e"}),
         escapes |-> Cardinality({i \in 0..(nul - 1) : full_bar[i] = "e"}),
         prefix_writes |-> filled \cup placed \cup {columns},
         prefix_reads |-> {idx - data_offset(idx) :
                              idx \in {i \in 4..(columns + 8) : ~is_insert(i)}},
         suffix_reads |-> 0..(suffix_size - 1)]

\* what a caller hands to progress_bar: the buffers it allocated, the
\* lengths snprintf returned, the two counts, and the divisor of the
\* percentage it printed
Call(columns, prefix_cap, prefix_size, suffix_cap, suffix_size, numerator, denominator, divisor) ==
    [columns |-> columns, prefix_cap |-> prefix_cap, prefix_size |-> prefix_size,
     suffix_cap |-> suffix_cap, suffix_size |-> suffix_size,
     numerator |-> numerator, denominator |-> denominator, divisor |-> divisor,
     pct |-> udiv(100 * numerator, divisor)]

\* the progress line of the audio stages (every 64 packets) and of the
\* video stage of dump_frames (shown == frame_count + 1 there):
\* "Writing Audio Frame: %lu/%ld Rate: %.1lf/s Time Left: %02u:%02u:%06.3lf"
\* and "[ %lu%% ]", or without the total "... %lu Rate: %.1lf/s" and "[ ???% ]"
stage_line(ws_col, shown, nb_frames, rate_len) ==
    IF nb_frames > 0
    THEN Call(ws_col, ws_col + 1,
              21 + Digits(shown) + 1 + Digits(nb_frames) + 7 + rate_len + 14 + 12,
              SUFFIX_MAX_SIZE, 5 + Digits(udiv(100 * shown, nb_frames)),
              shown, nb_frames, nb_frames)
    ELSE Call(ws_col, ws_col + 1, 21 + Digits(shown) + 7 + rate_len + 2,
              SUFFIX_MAX_SIZE, 8, 0, 1, 1)

\* the debug overlay of the player and the renderer:
\* "[Frame: %lu, %02u:%02u:%06.3lf]" and
\* "[%02u:%02u:%06.3lf, %lu Frames, %lu%%]"; total is total_frames in the
\* player and nb_frames - 1 in the renderer
overlay_line(cols, frame_num, total) ==
    Call(cols - 1, cols + 1, 8 + Digits(frame_num) + 2 + 12 + 1,
         cols, 1 + 12 + 2 + Digits(total) + 9
                 + Digits(udiv(100 * frame_num, total)) + 2,
         frame_num, total, total)

\* the call made and what progress_bar did with it
bar_of(call) ==
    LET bar == progress_bar(call.columns,
                            snprintf_buf(call.prefix_cap, call.prefix_size),
                            call.prefix_size,
                            snprintf_buf(call.suffix_cap, call.suffix_size),
                            call.suffix_size, call.numerator, call.denominator)
    IN  [called |-> TRUE, columns |-> call.columns,
         prefix_cap |-> call.prefix_cap, prefix_size |-> call.prefix_size,
         suffix_cap |-> call.suffix_cap, suffix_size |-> call.suffix_size,
         numerator |-> call.numerator, denominator |-> call.denominator,
         pct |-> call.pct, insert_offset |-> bar.insert_offset,
         visible |-> bar.visible, escapes |-> bar.escapes,
         prefix_writes |-> bar.prefix_writes, prefix_reads |-> bar.prefix_reads,
         suffix_reads |-> bar.suffix_reads]

MaxBarFrames == 3
MaxBarPackets == 64
BarWidths == {1, 2, 8, 80}
RateLens == {3, 5}
BarCallers == {"dump_audio", "dump_video", "player_audio", "player", "renderer"}
\* the frame count of the stream or its estimate, total_frames in the player
FrameCounts(who) ==
    IF who = "player" THEN 0..MaxBarFrames
    ELSE IF who \in {"dump_audio", "player_audio"}
         THEN {-1, 0, 1, MaxBarPackets, MaxBarPackets + 1}
    ELSE -1..MaxBarFrames

InitBar ==
    /\ OldOff /\ ReadOff /\ AvioOff
    /\ bpc = "start" /\ bwho = "none" /\ bcount = 0 /\ bnb = 0 /\ blast = NoBar
    /\ bdivzero = FALSE

\* the loop is entered with frame_count = 0 and the frame count it was given
BarStart ==
    /\ bpc = "start"
    /\ \E who \in BarCallers : \E nb_frames \in FrameCounts(who) :
          bwho' = who /\ bnb' = nb_frames
    /\ bpc' = "loop"
    /\ UNCHANGED <<bcount, blast, bdivzero, notBar>>

\* the line is formatted and progress_bar called; a percentage with a zero
\* divisor is a division by zero, which kills the process or yields 0
Emit(call) ==
    IF call.divisor = 0
    THEN /\ bdivzero' = TRUE
         /\ \/ bpc' = "killed" /\ blast' = blast
            \/ bpc' = "loop" /\ blast' = bar_of(call)
    ELSE /\ bdivzero' = bdivzero /\ bpc' = "loop" /\ blast' = bar_of(call)

\* a round of the audio packet loop of dump_frames or file_print_frames
BarAudio(who) ==
    /\ bpc = "loop" /\ bwho = who
    /\ \/ bpc' = "done" /\ UNCHANGED <<bcount, bnb, blast, bdivzero>>
       \/ /\ bcount < MaxBarPackets
          /\ \E ws_col \in BarWidths, rate_len \in RateLens, ioctl_fails \in BOOLEAN :
                LET frame_count == bcount + 1
                    nb_frames == IF frame_count > bnb THEN frame_count ELSE bnb
                IN  /\ bcount' = frame_count
                    /\ bnb' = nb_frames
                    /\ IF frame_count % ProgressEvery # 0
                       THEN UNCHANGED <<bpc, blast, bdivzero>>
                       ELSE IF ioctl_fails
                       THEN bpc' = "done" /\ UNCHANGED <<blast, bdivzero>>
                       ELSE Emit(stage_line(ws_col, frame_count, nb_frames, rate_len))
    /\ UNCHANGED <<bwho, notBar>>

BarDumpAudio == BarAudio("dump_audio")
BarPlayerAudio == BarAudio("player_audio")

\* a round of the video packet loop of dump_frames that wrote a frame
BarDumpVideo ==
    /\ bpc = "loop" /\ bwho = "dump_video"
    /\ \/ bpc' = "done" /\ UNCHANGED <<bcount, bnb, blast, bdivzero>>
       \/ /\ bcount < MaxBarFrames
          /\ \E ws_col \in BarWidths, rate_len \in RateLens, ioctl_fails \in BOOLEAN :
                LET frame_count == bcount + 1
                    nb_frames == IF frame_count > bnb THEN frame_count ELSE bnb
                IN  /\ bcount' = frame_count
                    /\ bnb' = nb_frames
                    /\ IF ioctl_fails
                       THEN bpc' = "done" /\ UNCHANGED <<blast, bdivzero>>
                       ELSE Emit(stage_line(ws_col, frame_count + 1, nb_frames,
                                            rate_len))
    /\ UNCHANGED <<bwho, notBar>>

\* a frame iteration of the player in debug mode
BarPlayer ==
    /\ bpc = "loop" /\ bwho = "player"
    /\ \/ bpc' = "done" /\ UNCHANGED <<bcount, blast, bdivzero>>
       \/ /\ bcount < MaxBarFrames + 1
          /\ \E curr_term_cols \in BarWidths :
                LET frame_num == bcount + 1
                IN  /\ bcount' = frame_num
                    /\ Emit(overlay_line(curr_term_cols, frame_num, bnb))
    /\ UNCHANGED <<bwho, bnb, notBar>>

\* a decoded frame of the renderer in debug mode; its terminal has at
\* least 2 columns
BarRenderer ==
    /\ bpc = "loop" /\ bwho = "renderer"
    /\ \/ bpc' = "done" /\ UNCHANGED <<bcount, bnb, blast, bdivzero>>
       \/ /\ bcount < MaxBarFrames
          /\ \E ws_col \in {w \in BarWidths : w >= 2} :
                LET frame_count == bcount + 1
                    nb_frames == IF frame_count > bnb THEN frame_count ELSE bnb
                IN  /\ bcount' = frame_count
                    /\ bnb' = nb_frames
                    /\ Emit(overlay_line(ws_col, frame_count, nb_frames - 1))
    /\ UNCHANGED <<bwho, notBar>>

NextBar ==
    \/ BarStart
    \/ BarDumpAudio
    \/ BarPlayerAudio
    \/ BarDumpVideo
    \/ BarPlayer
    \/ BarRenderer

SpecBar == InitBar /\ [][NextBar]_vars

\* C26: for every progress line the audio stage and the video stage of a
\* persist run emit, the done count passed to progress_bar is <= the total,
\* the reverse-video boundary is in [0, cols], the line has cols visible
\* characters and the two escape sequences, the percentage shown is in
\* 0..100, and progress_bar reads only prefix[0..cols].
C26_ProgressBounds ==
    (bwho \in {"dump_audio", "dump_video"} /\ blast.called) =>
        /\ blast.numerator <= blast.denominator
        /\ blast.insert_offset \in 0..blast.columns
        /\ blast.visible = blast.columns
        /\ blast.escapes = 8
        /\ blast.pct \in 0..100
        /\ blast.prefix_reads \subseteq 0..blast.columns

\* C29: in debug mode no frame iteration of the player or of the renderer
\* evaluates a division by zero for the overlay.
C29_OverlayDivision == bwho \in {"player", "renderer"} => ~bdivzero

\* C30: for every terminal width >= 1 progress_bar writes only inside
\* prefix[0..columns] and reads only bytes of the prefix and suffix buffers,
\* and the suffix length it is given exceeds neither the suffix buffer nor
\* the column count.
C30_BufferBounds ==
    blast.called =>
        /\ blast.prefix_writes \subseteq 0..blast.columns
        /\ blast.prefix_reads \subseteq 0..(blast.prefix_cap - 1)
        /\ blast.suffix_reads \subseteq 0..(blast.suffix_cap - 1)
        /\ blast.suffix_size <= blast.suffix_cap
        /\ blast.suffix_size <= blast.columns

----------------------------------------------------------------------------
(* The frame loop of file_print_frames: every iteration reads print_lines  *)
(* rows of print_columns bytes into line_contents and draws those that fit *)
(* the terminal, until an iteration's last fread returns 0.                *)

MaxReadFrames == 2
Grids == {<<2, 2>>, <<3, 2>>, <<2, 3>>}

\* fread(line_contents, 1, print_columns, fp) with the cursor at cur:
\* <<line_contents, cursor, ch_read>>; bytes beyond the ones read stay
fread_row(body, cur, buf, print_columns) ==
    LET n == Min(print_columns, Len(body) - cur)
    IN  <<[i \in 1..print_columns |-> IF i <= n THEN body[cur + i] ELSE buf[i]],
          cur + n, n>>

\* the rows of one iteration from row line on (counted from 0), where the
\* draw of row failed - 1 returns ERR (failed = 0: none does): the for
\* loop of lines 922-948 with its break.
\* [cur, buf, ch_read, rows, draw_successful]
RECURSIVE frame_rows(_, _, _, _, _, _, _, _)
frame_rows(body, grid, term_lines, failed, line, cur, buf, rows) ==
    LET got == fread_row(body, cur, buf, grid[1])
        drawn == line < term_lines
        shown == IF drawn THEN Append(rows, [bytes |-> got[1], read |-> got[3]])
                 ELSE rows
        draw_successful == IF drawn /\ line + 1 = failed THEN ERR ELSE 0
    IN  IF draw_successful = ERR \/ line + 1 = grid[2]
        THEN [cur |-> got[2], buf |-> got[1], ch_read |-> got[3], rows |-> shown,
              draw_successful |-> draw_successful]
        ELSE frame_rows(body, grid, term_lines, failed, line + 1, got[2], got[1],
                        shown)

InitRead ==
    /\ OldOff /\ BarOff /\ AvioOff
    /\ rpc = "start" /\ rgrid = <<0, 0>> /\ rterm = 0 /\ rbody = <<>> /\ rtotal = 0
    /\ rcur = 0 /\ rbuf = <<>> /\ rchread = 0 /\ rnum = 0 /\ rstart = 0
    /\ rrows = <<>> /\ rclean = TRUE /\ rret = -1

\* the file is open with the cursor at 64 + audio_size, line_contents is
\* allocated, ch_read is 1 and frame_num 0
ReadStart ==
    /\ rpc = "start"
    /\ \E grid \in Grids, term_lines \in 1..3 :
       \E size \in 0..(MaxReadFrames * grid[1] * grid[2] + 1) :
          /\ rgrid' = grid
          /\ rterm' = term_lines
          /\ rbody' = [i \in 1..size |-> i]
          /\ rtotal' = size \div (grid[1] * grid[2])
          /\ rbuf' = [i \in 1..grid[1] |-> -1]
    /\ rpc' = "loop" /\ rchread' = 1
    /\ UNCHANGED <<rcur, rnum, rstart, rrows, rclean, rret, notRead>>

\* the loop condition and one iteration: the rows, frame_num++, and then
\* the draw error count, the clock and the sleep
ReadFrame ==
    /\ rpc = "loop"
    /\ IF rchread = 0
       THEN /\ rpc' = "returned" /\ rret' = 0
            /\ UNCHANGED <<rcur, rbuf, rchread, rnum, rstart, rrows, rclean>>
       ELSE \E failed \in 0..Min(rgrid[2], rterm), clock \in {0, ERR} :
               LET it == frame_rows(rbody, rgrid, rterm, failed, 0, rcur, rbuf, <<>>)
               IN  /\ rstart' = rcur
                   /\ rcur' = it.cur
                   /\ rbuf' = it.buf
                   /\ rchread' = it.ch_read
                   /\ rrows' = it.rows
                   /\ rnum' = rnum + 1
                   /\ rclean' = (rclean /\ it.draw_successful # ERR)
                   /\ IF it.draw_successful # ERR /\ clock = ERR
                      THEN rpc' = "returned" /\ rret' = 1
                      ELSE rpc' = rpc /\ rret' = rret
    /\ UNCHANGED <<rgrid, rterm, rbody, rtotal, notRead>>

NextRead == ReadStart \/ ReadFrame
SpecRead == InitRead /\ [][NextRead]_vars

\* row line (from 0) of the stored frame k (from 1)
StoredRow(k, line) ==
    [i \in 1..rgrid[1] |-> ((k - 1) * rgrid[2] + line) * rgrid[1] + i]

\* C21: when no draw fails and the file holds N = total_frames complete
\* frames, the frame counter never exceeds total_frames, every row an
\* iteration draws consists of bytes read in that iteration, the k-th
\* iteration drawing the rows of the k-th stored frame, and the loop is
\* left with frame_num = N and the return value 0.
C21_FrameLoop ==
    (rpc \in {"loop", "returned"} /\ rclean
        /\ Len(rbody) = rtotal * rgrid[1] * rgrid[2]) =>
        /\ rnum <= rtotal
        /\ \A r \in 1..Len(rrows) :
              /\ rrows[r].read = rgrid[1]
              /\ rrows[r].bytes = StoredRow(rnum, r - 1)
        /\ (rpc = "returned" /\ rret = 0) => rnum = rtotal

\* C28: every frame iteration begins with the file cursor at 64 +
\* audio_size + k * print_columns * print_lines for an integer k >= 0,
\* also after an iteration in which a row draw failed.
C28_FrameAlignment ==
    rpc \in {"loop", "returned"} => rstart % (rgrid[1] * rgrid[2]) = 0

----------------------------------------------------------------------------
(* The start of file_print_frames: the audio of the file is read through   *)
(* avio_custom_read and transcoded, the audio device is opened, the file   *)
(* is positioned at the first frame, the audio is queued and the frame     *)
(* loop begins.  Offsets and sizes are digit sequences.                    *)

HeaderSize == BFromInt(VIDTXT_HEADER_SIZE)

\* (int32_t) of a value v >= 0 of a wider type: its low 32 bits as a two's
\* complement number
int32_of(v) ==
    LET low == Wrap(v, 4)
    IN  IF low[4] >= 128
        THEN [neg |-> TRUE, mag |-> BSub(<<0, 0, 0, 0, 1>>, low)]
        ELSE [neg |-> FALSE, mag |-> BTrim(low)]

\* current_position = ftell(fp) - VIDTXT_HEADER_SIZE; ftell returns -1 when
\* it fails
current_position_of(cur, tell_ok) ==
    IF ~tell_ok THEN [neg |-> TRUE, mag |-> BFromInt(VIDTXT_HEADER_SIZE + 1)]
    ELSE IF BLess(cur, HeaderSize)
         THEN [neg |-> TRUE, mag |-> BSub(HeaderSize, cur)]
    ELSE int32_of(BSub(cur, HeaderSize))

BMin(a, b) == IF BLeq(a, b) THEN a ELSE b

\* avio_custom_read with the file cursor at cur: what it returns, how many
\* bytes fread delivered, and the cursor afterwards
avio_custom_read(cur, tell_ok, audio_size, file_size, buffer_size) ==
    LET current_position == current_position_of(cur, tell_ok)
    IN  IF current_position.neg
        THEN [ret |-> "error", len |-> <<>>, cur |-> cur]
        ELSE LET cp == current_position.mag
                 size == IF BLess(audio_size, BAdd(cp, buffer_size))
                         THEN int32_of(BSubWrap(audio_size, cp, 8))
                         ELSE [neg |-> FALSE, mag |-> buffer_size]
                 left == IF BLess(cur, file_size) THEN BSub(file_size, cur)
                         ELSE <<>>
                 len == IF size.neg THEN left ELSE BMin(size.mag, left)
             IN  [ret |-> IF BZero(len) \/ BLeq(audio_size, cp) THEN "eof"
                          ELSE "data",
                  len |-> BTrim(len), cur |-> BTrim(BAdd(cur, len))]

\* fseek(fp, VIDTXT_HEADER_SIZE + audio_size, 0): where the cursor is then
cursor_kept(cur, audio_size) == cur
body_offset(cur, audio_size) == BTrim(BAdd(HeaderSize, audio_size))

MaxReads == 3
Pow30 == <<0, 0, 0, 64>>
Pow31 == <<0, 0, 0, 128>>
AudioSizes == {<<>>, <<5>>, BSub(Pow31, <<1>>), Pow31, BAdd(Pow31, <<5>>),
               <<255, 255, 255, 255, 255, 255, 255, 127>>}
FileSizes == {HeaderSize, BFromInt(VIDTXT_HEADER_SIZE + 3),
              BFromInt(VIDTXT_HEADER_SIZE + 5), BFromInt(VIDTXT_HEADER_SIZE + 9),
              BAdd(Pow31, BFromInt(VIDTXT_HEADER_SIZE + 9))}
BufferSizes == {<<1>>, <<4>>, <<0, 16>>, Pow30, INT_MAX.mag}
WavLens == {0, 4}

\* an entry of clog; n is a digit sequence
Event(ev, n) == [ev |-> ev, n |-> n]

InitAvio ==
    /\ OldOff /\ BarOff /\ ReadOff
    /\ cpc = "start" /\ caudio = <<>> /\ cfsize = <<>> /\ cnoaudio = FALSE
    /\ ccur = <<>> /\ creads = 0 /\ clast = NoCall /\ cgot = <<>> /\ ceof = FALSE
    /\ cwav = 0 /\ clog = <<>> /\ cret = -1

AvioLeave == cpc' = "returned" /\ cret' = 1

\* the file was opened by new_vidtxt_info, which left the cursor at 64;
\* the audio is set up if audio_size > 0 and no_audio is unset
PlayerOpen ==
    /\ cpc = "start"
    /\ \E audio_size \in AudioSizes, file_size \in FileSizes, no_audio \in BOOLEAN :
          /\ caudio' = audio_size /\ cfsize' = file_size /\ cnoaudio' = no_audio
          /\ cpc' = IF ~BZero(audio_size) /\ ~no_audio THEN "transcode" ELSE "seek"
    /\ ccur' = HeaderSize
    /\ UNCHANGED <<creads, clast, cgot, ceof, cwav, clog, cret, notAvio>>

\* the media framework asks the adapter for buffer_size bytes
TranscodeRead ==
    /\ cpc = "transcode" /\ creads < MaxReads
    /\ \E buffer_size \in BufferSizes, tell_ok \in BOOLEAN :
          LET r == avio_custom_read(ccur, tell_ok, caudio, cfsize, buffer_size)
          IN  /\ clast' = [called |-> TRUE, tell_ok |-> tell_ok, before |-> ccur,
                           buffer_size |-> buffer_size, ret |-> r.ret,
                           len |-> r.len, after_eof |-> ceof]
              /\ ccur' = r.cur
              /\ cgot' = IF r.ret = "data"
                         THEN Append(cgot, [from |-> ccur, len |-> r.len])
                         ELSE cgot
              /\ ceof' = (ceof \/ r.ret = "eof")
    /\ creads' = creads + 1
    /\ UNCHANGED <<cpc, caudio, cfsize, cnoaudio, cwav, clog, cret, notAvio>>

\* the transcode ends: with an error, or with the WAV in memory
TranscodeEnd ==
    /\ cpc = "transcode"
    /\ \/ AvioLeave /\ cwav' = cwav
       \/ \E wav_data_len \in WavLens :
             cwav' = wav_data_len /\ cpc' = "device" /\ cret' = cret
    /\ UNCHANGED <<caudio, cfsize, cnoaudio, ccur, creads, clast, cgot, ceof,
                   clog, notAvio>>

\* SDL_Init, SDL_LoadWAV_IO and SDL_OpenAudioDeviceStream
OpenDevice ==
    /\ cpc = "device"
    /\ \E fail \in {"none", "SDL_Init", "wav", "device"} :
          /\ clog' = clog \o (IF fail = "SDL_Init" THEN <<>>
                              ELSE <<Event("SDL_Init", <<>>)>>)
                          \o (IF fail = "none" THEN <<Event("open", <<>>)>> ELSE <<>>)
          /\ IF fail = "none" THEN cpc' = "seek" /\ cret' = cret ELSE AvioLeave
    /\ UNCHANGED <<caudio, cfsize, cnoaudio, ccur, creads, clast, cgot, ceof,
                   cwav, notAvio>>

\* fseek to the first frame and the ftell that checks it, then the screen
\* and the first clock reading
SeekBody ==
    /\ cpc = "seek"
    /\ \E fail \in {"none", "fseek", "later"} :
          IF fail = "fseek" \/ Digit(caudio, 8) >= 128
          THEN AvioLeave /\ ccur' = ccur
          ELSE /\ ccur' = body_offset(ccur, caudio)
               /\ IF fail = "later" THEN AvioLeave
                  ELSE cpc' = "queue" /\ cret' = cret
    /\ UNCHANGED <<caudio, cfsize, cnoaudio, creads, clast, cgot, ceof, cwav, clog,
                   notAvio>>

\* lines 902-918: the WAV is put on the stream unless that much is queued
\* already, and the device is resumed
QueueAudio ==
    /\ cpc = "queue"
    /\ IF ~BZero(caudio) /\ ~cnoaudio
       THEN clog' = clog \o (IF 0 < cwav THEN <<Event("queue", BFromInt(cwav))>> ELSE <<>>)
                         \o <<Event("resume", <<>>)>>
       ELSE clog' = clog
    /\ cpc' = "frames"
    /\ UNCHANGED <<caudio, cfsize, cnoaudio, ccur, creads, clast, cgot, ceof, cwav,
                   cret, notAvio>>

\* the first fread of the frame loop
FirstRow ==
    /\ cpc = "frames"
    /\ IF clog = <<>> THEN TRUE ELSE clog[Len(clog)].ev # "row"
    /\ clog' = Append(clog, Event("row", ccur))
    /\ UNCHANGED <<cpc, caudio, cfsize, cnoaudio, ccur, creads, clast, cgot, ceof,
                   cwav, cret, notAvio>>

NextAvio ==
    \/ PlayerOpen
    \/ TranscodeRead
    \/ TranscodeEnd
    \/ OpenDevice
    \/ SeekBody
    \/ QueueAudio
    \/ FirstRow

SpecAvio == InitAvio /\ [][NextAvio]_vars

\* the end of the audio window, and of the part of it the file holds
WindowEnd == BTrim(BAdd(HeaderSize, caudio))
WindowHeld == BTrim(BAdd(HeaderSize, BMin(caudio, BSub(cfsize, HeaderSize))))

\* C22: for calls of avio_custom_read with positive buffer sizes that start
\* with the cursor at 64, whatever audio_size and the file size are: the
\* cursor stays within [64, 64 + audio_size], a call returns at most
\* min(buffer_size, bytes left in the window) bytes, the ranges delivered
\* follow each other from 64 on, and when a call (with a working ftell)
\* delivers nothing, all of [64, 64 + min(audio_size, file_size - 64)) has
\* been delivered.
C22_AdapterWindow ==
    cpc \in {"transcode", "device"} =>
        /\ BLeq(HeaderSize, ccur) /\ BLeq(ccur, WindowEnd)
        /\ (clast.called /\ clast.ret = "data") =>
              /\ BLeq(clast.len, clast.buffer_size)
              /\ BLeq(BAdd(clast.before, clast.len), WindowEnd)
        /\ \A i \in 1..Len(cgot) :
              cgot[i].from = IF i = 1 THEN HeaderSize
                             ELSE BTrim(BAdd(cgot[i - 1].from, cgot[i - 1].len))
        /\ (clast.called /\ clast.tell_ok /\ clast.ret # "data") =>
              ccur = WindowHeld

\* C23: a call made with the window exhausted (cursor = 64 + audio_size) or
\* with no byte left in the file returns AVERROR_EOF, and so does every
\* call after an AVERROR_EOF, each leaving the cursor where it was; a call
\* that sees the cursor below 64 returns an error and reads nothing.
C23_AdapterOutcomes ==
    (cpc \in {"transcode", "device"} /\ clast.called) =>
        /\ (clast.tell_ok /\ (clast.before = WindowEnd \/ BLeq(cfsize, clast.before)
                              \/ clast.after_eof)) =>
              clast.ret = "eof" /\ ccur = clast.before
        /\ ~clast.tell_ok => clast.ret = "error" /\ ccur = clast.before

AudioWanted == ~BZero(caudio) /\ ~cnoaudio
RowAt(i) == clog[i].ev = "row"

\* C24: the audio library is initialised and the device opened iff
\* audio_size > 0 and no_audio is unset; then the whole WAV is queued and
\* playback resumed before the first frame row is read, nothing is queued
\* after it, and the first row is read at offset 64 + audio_size whatever
\* the transcode read.
C24_StartProtocol ==
    /\ clog # <<>> /\ ~RowAt(1) => AudioWanted
    /\ (AudioWanted /\ cpc \in {"seek", "queue", "frames"}) =>
          /\ Len(clog) >= 2
          /\ clog[1].ev = "SDL_Init" /\ clog[2].ev = "open"
    /\ \A i \in 1..Len(clog) : RowAt(i) =>
          /\ clog[i].n = BTrim(BAdd(HeaderSize, caudio))
          /\ i = Len(clog)
          /\ [j \in 1..(i - 1) |-> clog[j]] =
                IF AudioWanted
                THEN <<Event("SDL_Init", <<>>), Event("open", <<>>)>>
                     \o (IF cwav > 0 THEN <<Event("queue", BFromInt(cwav))>>
                         ELSE <<>>)
                     \o <<Event("resume", <<>>)>>
                ELSE <<>>

\* the first row was read at 69 after a transcode that had read only the
\* first byte of a 5-byte audio window, with the WAV queued before
C24_Witness ==
    /\ cpc = "frames" /\ caudio = <<5>> /\ ~cnoaudio
    /\ cgot = <<[from |-> HeaderSize, len |-> <<1>>]>>
    /\ clog = <<Event("SDL_Init", <<>>), Event("open", <<>>),
                Event("queue", <<4>>), Event("resume", <<>>),
                Event("row", <<69>>)>>
====
